---- MODULE Spec2Model ----
(***************************************************************************)
(* Model of libimd (the ImageDisk track codec, src/src/libimd.c) and of    *)
(* libimdf (the in-memory image built on it, src/src/libimdf.c).           *)
(*                                                                         *)
(* A stream is a sequence of bytes; the stream position is a 0-based       *)
(* offset, so the byte at offset p of stream s is s[p + 1].  A track is a  *)
(* record with the fields of ImdTrackInfo; the fixed 256-entry arrays are  *)
(* kept as sequences holding their first num_sectors entries, and the data *)
(* buffer as the sequence of its data_size bytes (<< >> is the NULL        *)
(* buffer).                                                                *)
(***************************************************************************)
EXTENDS Integers, Sequences, FiniteSets, TLC

(***************************************************************************)
(* Bounds of the model.                                                    *)
(***************************************************************************)
MaxSectors == 3       \* largest num_sectors of an input track record
MaxSizeCode == 0      \* largest sector size code of an input track record
MaxImgSectors == 2    \* largest num_sectors of a track of an image
MaxCyl == 1           \* largest cylinder number used by a caller
MaxHead == 2          \* largest head number passed by a caller
MaxCalls == 2         \* number of API calls made on one opened image
MaxIlSectors == 5     \* largest num_sectors of a track of the interleave inputs
MaxStreamSectors == 2 \* largest num_sectors of a record of the stream inputs
MaxCut == 5           \* most bytes cut from the end of a stream input
MaxChkTracks == 2        \* track records in a file that imdchk_check_file scans

(***************************************************************************)
(* Constants of libimd.h and libimdf.h.                                    *)
(***************************************************************************)
LIBIMD_FILL_BYTE_DEFAULT == 229
LIBIMD_COMMENT_EOF_MARKER == 26
LIBIMD_NUM_MODES == 6
IMD_MODE_MFM_250 == 5
LIBIMD_IL_AS_READ == 0
LIBIMD_IL_BEST_GUESS == 255
LIBIMD_INVALID_SECTOR_POS == 255
IMD_HFLAG_CMAP_PRES == 128
IMD_HFLAG_HMAP_PRES == 64

IMD_SDR_UNAVAILABLE == 0
IMD_SDR_NORMAL == 1
IMD_SDR_COMPRESSED == 2
IMD_SDR_NORMAL_DAM == 3
IMD_SDR_COMPRESSED_DAM == 4
IMD_SDR_NORMAL_ERR == 5
IMD_SDR_COMPRESSED_ERR == 6
IMD_SDR_DELETED_ERR == 7
IMD_SDR_COMPRESSED_DEL_ERR == 8

IMD_COMPRESSION_AS_READ == 0
IMD_COMPRESSION_FORCE_COMPRESS == 1
IMD_COMPRESSION_FORCE_DECOMPRESS == 2

IMD_ERR_SECTOR_NOT_FOUND == -10
IMD_ERR_READ_ERROR == -12
IMD_ERR_WRITE_ERROR == -13
IMD_ERR_INVALID_ARG == -15

IMDF_ERR_OK == 0
IMDF_ERR_WRITE_PROTECTED == -100
IMDF_ERR_GEOMETRY == -101
IMDF_ERR_NOT_FOUND == -102
IMDF_ERR_IO == -104
IMDF_ERR_INVALID_ARG == -105
IMDF_ERR_SECTOR_SIZE == -106
IMDF_ERR_BUFFER_SIZE == -107
IMDF_ERR_UNAVAILABLE == -108
IMDF_ERR_LIBIMD_ERR == -109

SECTOR_SIZE_LOOKUP == <<128, 256, 512, 1024, 2048, 4096, 8192>>
SECTOR_SIZE_LOOKUP_COUNT == Len(SECTOR_SIZE_LOOKUP)

(***************************************************************************)
(* Byte arithmetic.  A C expression on uint8_t operands is evaluated in    *)
(* int; LowByte gives the low 8 bits of the (two's complement) result.     *)
(***************************************************************************)
LowByte(x) == (x + 256) % 256

Bit(x, k) == (x \div (2 ^ k)) % 2

BitOr(a, b) ==
    LET o(k) == IF Bit(a, k) = 1 \/ Bit(b, k) = 1 THEN 2 ^ k ELSE 0
    IN  o(0) + o(1) + o(2) + o(3) + o(4) + o(5) + o(6) + o(7)

Fill(b, n) == [k \in 1..n |-> b]

(***************************************************************************)
(* The predicates on a Sector Data Record type, libimd.h:65-73.            *)
(***************************************************************************)
IMD_SDR_HAS_DATA(type) == type >= 1 /\ type <= 8

IMD_SDR_IS_COMPRESSED(type) == type % 2 = 0 /\ type # 0

\* ((type - 1) & 0x02), nonzero
IMD_SDR_HAS_DAM(type) == Bit(LowByte(type - 1), 1) = 1

\* ((type - 1) & 0x04), nonzero
IMD_SDR_HAS_ERR(type) == Bit(LowByte(type - 1), 2) = 1

(***************************************************************************)
(* imd_is_uniform, libimd.c:1174-1185: the result, and the fill byte it    *)
(* stores (the first byte).                                                *)
(***************************************************************************)
\* mutant of imd_is_uniform: the loop stops one byte short
imd_is_uniform_short(data) ==
    Len(data) = 0 \/ \A i \in 2..(Len(data) - 1) : data[i] = data[1]

imd_is_uniform(data) ==
    Len(data) = 0 \/ \A i \in 2..Len(data) : data[i] = data[1]

uniform_fill_byte(data) == IF Len(data) = 0 THEN 0 ELSE data[1]

(***************************************************************************)
(* ImdTrackInfo after memset(track, 0, sizeof(ImdTrackInfo)).              *)
(***************************************************************************)
ZeroTrack ==
    [mode |-> 0, cyl |-> 0, head |-> 0, hflag |-> 0, num_sectors |-> 0,
     sector_size_code |-> 0, sector_size |-> 0,
     smap |-> << >>, cmap |-> << >>, hmap |-> << >>, sflag |-> << >>,
     data |-> << >>, loaded |-> FALSE]

\* the data bytes of the sector at physical index i (0-based)
SectorData(track, i) ==
    SubSeq(track.data, i * track.sector_size + 1, (i + 1) * track.sector_size)

(***************************************************************************)
(* imd_load_track, libimd.c:422-632.  The sector loop reads, for sector i, *)
(* the record type byte and then 0, 1 or sector_size bytes.                *)
(***************************************************************************)
RECURSIVE load_sectors(_, _, _, _, _, _, _, _)
load_sectors(fimd, pos, i, n, size, fill_byte, sflag, data) ==
    IF i = n THEN [ok |-> TRUE, pos |-> pos, sflag |-> sflag, data |-> data]
    ELSE IF pos >= Len(fimd)
    THEN [ok |-> FALSE, pos |-> pos, sflag |-> sflag, data |-> << >>]
    ELSE
      LET sector_type == fimd[pos + 1]
          sf == Append(sflag, sector_type)
      IN  IF IMD_SDR_HAS_DATA(sector_type)
          THEN IF IMD_SDR_IS_COMPRESSED(sector_type)
               THEN IF pos + 1 >= Len(fimd)
                    THEN [ok |-> FALSE, pos |-> pos, sflag |-> sf, data |-> << >>]
                    ELSE load_sectors(fimd, pos + 2, i + 1, n, size, fill_byte, sf,
                                      data \o Fill(fimd[pos + 2], size))
               ELSE IF pos + 1 + size > Len(fimd)
                    THEN [ok |-> FALSE, pos |-> pos, sflag |-> sf, data |-> << >>]
                    ELSE load_sectors(fimd, pos + 1 + size, i + 1, n, size, fill_byte, sf,
                                      data \o SubSeq(fimd, pos + 2, pos + 1 + size))
          ELSE IF sector_type = IMD_SDR_UNAVAILABLE
               THEN load_sectors(fimd, pos + 1, i + 1, n, size, fill_byte, sf,
                                 data \o Fill(fill_byte, size))
               ELSE [ok |-> FALSE, pos |-> pos, sflag |-> sf, data |-> << >>]

\* the five header bytes (libimd.c:442-466); a byte past the end is not read
read_track_header(fimd, start_pos) ==
    LET Rd(k) == IF start_pos + k < Len(fimd) THEN fimd[start_pos + k + 1] ELSE 0
    IN  [track |-> [ZeroTrack EXCEPT !.mode = Rd(0), !.cyl = Rd(1),
                                     !.num_sectors = Rd(3),
                                     !.sector_size_code = Rd(4)],
         head_byte |-> Rd(2)]

\* head and flags are the two halves of the third header byte (470-471)
decode_track_header(h) ==
    [h.track EXCEPT !.head = h.head_byte % 16,
                    !.hflag = h.head_byte - (h.head_byte % 16)]

\* mutant of load_failed: the stream stays behind the header
load_failed_no_seek_back(t, start_pos) ==
    [ret |-> IMD_ERR_READ_ERROR, track |-> t, pos |-> start_pos + 5]

\* a failed read: the error code, and the stream back at start_pos
load_failed(t, start_pos) ==
    [ret |-> IMD_ERR_READ_ERROR, track |-> t, pos |-> start_pos]

\* smap and the optional cmap and hmap (libimd.c:500-534); pos is where the
\* sector records start
read_maps(fimd, start_pos, t0) ==
    LET len == Len(fimd)
        n == t0.num_sectors
        Avail(p) == SubSeq(fimd, p + 1, IF p + n <= len THEN p + n ELSE len)
        has_cmap == Bit(t0.hflag, 7) = 1
        has_hmap == Bit(t0.hflag, 6) = 1
        p_smap == start_pos + 5
        p_cmap == start_pos + 5 + n
        p_hmap == start_pos + 5 + n + (IF has_cmap THEN n ELSE 0)
        p_data == start_pos + 5 + n + (IF has_cmap THEN n ELSE 0)
                                    + (IF has_hmap THEN n ELSE 0)
    IN
    IF p_smap + n > len
    THEN [ok |-> FALSE, pos |-> start_pos,
          track |-> [t0 EXCEPT !.smap = Avail(p_smap)]]
    ELSE IF has_cmap /\ p_cmap + n > len
    THEN [ok |-> FALSE, pos |-> start_pos,
          track |-> [t0 EXCEPT !.smap = Avail(p_smap), !.cmap = Avail(p_cmap)]]
    ELSE [ok |-> ~(has_hmap /\ p_hmap + n > len), pos |-> p_data,
          track |-> [t0 EXCEPT !.smap = Avail(p_smap),
                               !.cmap = IF has_cmap THEN Avail(p_cmap)
                                        ELSE Fill(t0.cyl, n),
                               !.hmap = IF has_hmap THEN Avail(p_hmap)
                                        ELSE Fill(t0.head, n)]]

\* the end of imd_load_track, given the result r of the sector loop (562-631)
load_finish(t3, start_pos, r) ==
    IF r.ok
    THEN [ret |-> 1,
          track |-> [t3 EXCEPT !.sflag = r.sflag, !.data = r.data,
                               !.loaded = TRUE],
          pos |-> r.pos]
    ELSE load_failed([t3 EXCEPT !.sflag = r.sflag], start_pos)

\* imd_load_track once the maps are read (m is the result of read_maps)
load_mapped(fimd, start_pos, fill_byte, m) ==
    IF ~m.ok THEN load_failed(m.track, start_pos)
    ELSE load_finish(m.track, start_pos,
                     load_sectors(fimd, m.pos, 0, m.track.num_sectors,
                                  m.track.sector_size, fill_byte, << >>, << >>))

\* imd_load_track once the header is decoded (libimd.c:473-548)
load_decoded(fimd, start_pos, fill_byte, dec) ==
    IF dec.mode >= LIBIMD_NUM_MODES \/ dec.head > 1
       \/ dec.sector_size_code >= SECTOR_SIZE_LOOKUP_COUNT
    THEN load_failed(dec, start_pos)
    ELSE IF dec.num_sectors = 0
    THEN [ret |-> 1,
          track |-> [dec EXCEPT
                       !.sector_size = SECTOR_SIZE_LOOKUP[dec.sector_size_code + 1],
                       !.loaded = TRUE],
          pos |-> start_pos + 5]
    ELSE load_mapped(fimd, start_pos, fill_byte,
             read_maps(fimd, start_pos,
                 [dec EXCEPT
                    !.sector_size = SECTOR_SIZE_LOOKUP[dec.sector_size_code + 1]]))

imd_load_track(fimd, start_pos, fill_byte) ==
    IF start_pos >= Len(fimd)
    THEN [ret |-> 0, track |-> ZeroTrack, pos |-> start_pos]
    ELSE IF start_pos + 5 > Len(fimd)
    THEN load_failed(read_track_header(fimd, start_pos).track, start_pos)
    ELSE load_decoded(fimd, start_pos, fill_byte,
                      decode_track_header(read_track_header(fimd, start_pos)))

(***************************************************************************)
(* skip_sector_data, libimd.c:636-752.  pos is the stream position after   *)
(* the record type byte.  seek is what the stream does with                *)
(* fseek(.., SEEK_CUR): "seek" moves the position by the count, also past  *)
(* the end of the file; "clamp" reports success and stops at the end of    *)
(* the file; "read" fails, and the bytes are read and discarded instead.   *)
(***************************************************************************)
skip_sector_data(fimd, pos, sector_flag, sector_size, track_start_pos, seek) ==
    LET data_to_skip == IF sector_flag = IMD_SDR_UNAVAILABLE THEN 0
                        ELSE IF IMD_SDR_IS_COMPRESSED(sector_flag) THEN 1
                        ELSE IF sector_flag \in {IMD_SDR_NORMAL, IMD_SDR_NORMAL_DAM,
                                                 IMD_SDR_NORMAL_ERR, IMD_SDR_DELETED_ERR}
                        THEN sector_size
                        ELSE 0 - 1
    IN  IF data_to_skip < 0
        THEN [ret |-> IMD_ERR_READ_ERROR, pos |-> track_start_pos]
        ELSE IF data_to_skip = 0 THEN [ret |-> 0, pos |-> pos]
        ELSE IF seek = "seek" \/ pos + data_to_skip <= Len(fimd)
        THEN [ret |-> 0, pos |-> pos + data_to_skip]
        ELSE [ret |-> IMD_ERR_READ_ERROR, pos |-> track_start_pos]

(***************************************************************************)
(* imd_read_track_header (libimd.c:756-885) and                            *)
(* imd_read_track_header_and_flags (libimd.c:888-1050): the header and the *)
(* maps are read, the sector data records are skipped; the second keeps    *)
(* the record type bytes in sflag.                                         *)
(***************************************************************************)
\* the loop over the sector data records (libimd.c:857-876, 1017-1041)
RECURSIVE skip_sectors(_, _, _, _, _, _, _, _)
sector_skipped(fimd, i, n, size, start_pos, seek, sflag, r) ==
    IF r.ret # 0 THEN [ret |-> r.ret, pos |-> r.pos, sflag |-> sflag]
    ELSE skip_sectors(fimd, r.pos, i + 1, n, size, start_pos, seek, sflag)

skip_sectors(fimd, pos, i, n, size, start_pos, seek, sflag) ==
    IF i = n THEN [ret |-> 1, pos |-> pos, sflag |-> sflag]
    ELSE IF pos >= Len(fimd)
    THEN [ret |-> IMD_ERR_READ_ERROR, pos |-> start_pos, sflag |-> sflag]
    ELSE sector_skipped(fimd, i, n, size, start_pos, seek,
                        Append(sflag, fimd[pos + 1]),
                        skip_sector_data(fimd, pos + 1, fimd[pos + 1], size,
                                         start_pos, seek))

\* smap and the maps the head flags announce (libimd.c:823-853, 983-1013):
\* a map that is not in the file stays as memset left it
read_header_maps(fimd, start_pos, t0) ==
    LET n == t0.num_sectors
        has_cmap == Bit(t0.hflag, 7) = 1
        has_hmap == Bit(t0.hflag, 6) = 1
        p_data == start_pos + 5 + n + (IF has_cmap THEN n ELSE 0)
                                    + (IF has_hmap THEN n ELSE 0)
        Map(p) == [i \in 1..n |-> IF p + i <= Len(fimd) THEN fimd[p + i] ELSE 0]
    IN  [ok |-> p_data <= Len(fimd), pos |-> p_data,
         track |-> [t0 EXCEPT
                      !.smap = Map(start_pos + 5),
                      !.cmap = IF has_cmap THEN Map(start_pos + 5 + n)
                               ELSE Fill(0, n),
                      !.hmap = IF has_hmap
                               THEN Map(p_data - n)
                               ELSE Fill(0, n)]]

\* the end of the two functions, given the result r of the sector loop
header_finish(t, keep_flags, r) ==
    [ret |-> r.ret,
     track |-> IF keep_flags
               THEN [t EXCEPT !.sflag = r.sflag \o Fill(0, t.num_sectors - Len(r.sflag))]
               ELSE [t EXCEPT !.sflag = Fill(0, t.num_sectors)],
     pos |-> r.pos]

\* the two functions once the maps are read (m is what read_header_maps gave)
header_mapped(fimd, start_pos, seek, keep_flags, m) ==
    IF ~m.ok THEN load_failed(m.track, start_pos)
    ELSE header_finish(m.track, keep_flags,
                       skip_sectors(fimd, m.pos, 0, m.track.num_sectors,
                                    m.track.sector_size, start_pos, seek, << >>))

\* the two functions once the header is decoded
header_decoded(fimd, start_pos, seek, keep_flags, dec) ==
    IF dec.mode >= LIBIMD_NUM_MODES \/ dec.head > 1
       \/ dec.sector_size_code >= SECTOR_SIZE_LOOKUP_COUNT
    THEN load_failed(dec, start_pos)
    ELSE header_mapped(fimd, start_pos, seek, keep_flags,
             read_header_maps(fimd, start_pos,
                 [dec EXCEPT
                    !.sector_size = SECTOR_SIZE_LOOKUP[dec.sector_size_code + 1]]))

read_track_skipping(fimd, start_pos, seek, keep_flags) ==
    IF start_pos >= Len(fimd)
    THEN [ret |-> 0, track |-> ZeroTrack, pos |-> start_pos]
    ELSE IF start_pos + 5 > Len(fimd)
    THEN load_failed(ZeroTrack, start_pos)
    ELSE header_decoded(fimd, start_pos, seek, keep_flags,
                        decode_track_header(read_track_header(fimd, start_pos)))

imd_read_track_header(fimd, start_pos, seek) ==
    read_track_skipping(fimd, start_pos, seek, FALSE)

imd_read_track_header_and_flags(fimd, start_pos, seek) ==
    read_track_skipping(fimd, start_pos, seek, TRUE)

(***************************************************************************)
(* The bubble sort of a sector map, libimd.c:1213-1223 and 1291-1300.      *)
(***************************************************************************)
RECURSIVE bubble_inner(_, _, _)
bubble_inner(s, j, lim) ==
    IF j >= lim THEN s
    ELSE bubble_inner(IF s[j + 1] > s[j + 2]
                      THEN [s EXCEPT ![j + 1] = s[j + 2], ![j + 2] = s[j + 1]]
                      ELSE s,
                      j + 1, lim)

RECURSIVE bubble_outer(_, _, _)
bubble_outer(s, i, n) ==
    IF i >= n - 1 THEN s
    ELSE bubble_outer(bubble_inner(s, 0, n - i - 1), i + 1, n)

\* mutant of sorted_smap: the comparison is inverted, the result descending
sorted_smap_descending(smap) ==
    LET srt == bubble_outer(smap, 0, Len(smap))
    IN  [i \in 1..Len(srt) |-> srt[Len(srt) + 1 - i]]

sorted_smap(smap) == bubble_outer(smap, 0, Len(smap))

(***************************************************************************)
(* imd_calculate_best_interleave, libimd.c:1187-1257.                      *)
(***************************************************************************)
\* sector_pos[id]: the last physical index holding id, or the sentinel
sector_pos(smap, id) ==
    LET at == {i \in 0..(Len(smap) - 1) : smap[i + 1] = id}
    IN  IF at = {} THEN LIBIMD_INVALID_SECTOR_POS
        ELSE CHOOSE i \in at : \A j \in at : j <= i

\* mutant of pos_distance: a position behind the current one is measured
\* backwards instead of forward around the track
pos_distance_backwards(n, current_pos, next_pos) ==
    IF next_pos >= current_pos THEN next_pos - current_pos
    ELSE current_pos - next_pos

\* the distance from one physical position forward to another, around the
\* track (libimd.c:1233-1238)
pos_distance(n, current_pos, next_pos) ==
    IF next_pos >= current_pos THEN next_pos - current_pos
    ELSE n - (current_pos - next_pos)

\* srt is the sorted sector map of smap
interleave_distance(smap, srt, i) ==
    pos_distance(Len(smap), sector_pos(smap, srt[i + 1]),
                 sector_pos(smap, srt[((i + 1) % Len(smap)) + 1]))

\* interleave_counts[d], libimd.c:1226-1246
interleave_counts(smap, srt) ==
    [d \in 1..(Len(smap) - 1) |->
        Cardinality({i \in 0..(Len(smap) - 1) :
                        interleave_distance(smap, srt, i) = d})]

\* mutant of best_interleave: on a tie the largest distance is taken
best_interleave_last(cnt, n) ==
    LET best == {d \in 1..(n - 1) :
                    /\ cnt[d] > 0
                    /\ \A e \in 1..(n - 1) : cnt[e] <= cnt[d]}
    IN  IF best = {} THEN 1 ELSE CHOOSE d \in best : \A e \in best : e <= d

\* the smallest distance with the highest count, 1 if there is none
\* (libimd.c:1249-1256)
best_interleave(cnt, n) ==
    LET best == {d \in 1..(n - 1) :
                    /\ cnt[d] > 0
                    /\ \A e \in 1..(n - 1) : cnt[e] <= cnt[d]
                    /\ \A e \in 1..(d - 1) : cnt[e] < cnt[d]}
    IN  IF best = {} THEN 1 ELSE CHOOSE d \in best : TRUE

imd_calculate_best_interleave(t) ==
    IF t.num_sectors < 2 THEN 1
    ELSE best_interleave(interleave_counts(t.smap, sorted_smap(t.smap)),
                         t.num_sectors)

(***************************************************************************)
(* imd_apply_interleave, libimd.c:1259-1347.                               *)
(***************************************************************************)
\* logical_to_physical[i]: the first original index holding the i-th
\* smallest ID (libimd.c:1303-1317)
logical_to_physical(original_smap, i) ==
    LET srt == sorted_smap(original_smap)
    IN  CHOOSE k \in 0..(Len(original_smap) - 1) :
            /\ original_smap[k + 1] = srt[i + 1]
            /\ \A j \in 0..(k - 1) : original_smap[j + 1] # srt[i + 1]

\* while (physical_pos_used[current_physical_pos]) advance by one
RECURSIVE next_free_pos(_, _, _)
next_free_pos(used, cur, n) ==
    IF cur \in used THEN next_free_pos(used, (cur + 1) % n, n) ELSE cur

\* the physical slots chosen for logical indexes i, i+1, .. n-1, in that
\* order (libimd.c:1320-1324 and 1339-1342)
RECURSIVE placement(_, _, _, _, _)
placement(n, interleave_factor, i, cur, used) ==
    IF i = n THEN << >>
    ELSE LET p == next_free_pos(used, cur, n)
         IN  <<p>> \o placement(n, interleave_factor, i + 1,
                                (p + interleave_factor) % n, used \cup {p})

\* the original index whose maps and data physical slot p holds after the
\* placement loop: that of the last logical index placed at p (1327-1338),
\* or p itself if the loop never wrote the slot
slot_source(original_smap, placed, p) ==
    LET at == {i \in 0..(Len(placed) - 1) : placed[i + 1] = p}
    IN  IF at = {} THEN p
        ELSE logical_to_physical(original_smap,
                                 CHOOSE i \in at : \A j \in at : j <= i)

RECURSIVE gather_sources(_, _, _)
gather_sources(original_smap, placed, p) ==
    IF p = Len(original_smap) THEN << >>
    ELSE <<slot_source(original_smap, placed, p)>>
         \o gather_sources(original_smap, placed, p + 1)

RECURSIVE gather_data(_, _, _)
gather_data(original, src, p) ==
    IF p = Len(src) THEN << >>
    ELSE SectorData(original, src[p + 1]) \o gather_data(original, src, p + 1)

RECURSIVE gather_map(_, _, _)
gather_map(m, src, p) ==
    IF p = Len(src) THEN << >>
    ELSE <<m[src[p + 1] + 1]>> \o gather_map(m, src, p + 1)

\* the track with slot p holding the maps and data of original index src[p]
reorder_track(t, src) ==
    [t EXCEPT !.smap = gather_map(t.smap, src, 0),
              !.cmap = gather_map(t.cmap, src, 0),
              !.hmap = gather_map(t.hmap, src, 0),
              !.sflag = gather_map(t.sflag, src, 0),
              !.data = gather_data(t, src, 0)]

\* mutant of imd_apply_interleave: the maps are reordered, the data is not
imd_apply_interleave_maps_only(t, interleave_factor) ==
    IF ~t.loaded \/ Len(t.data) = 0 \/ t.num_sectors < 2 \/ interleave_factor < 1
    THEN [ret |-> IMD_ERR_INVALID_ARG, track |-> t]
    ELSE [ret |-> 0,
          track |-> [reorder_track(t,
                         gather_sources(t.smap,
                             placement(t.num_sectors, interleave_factor, 0, 0, {}),
                             0))
                     EXCEPT !.data = t.data]]

imd_apply_interleave(t, interleave_factor) ==
    IF ~t.loaded \/ Len(t.data) = 0 \/ t.num_sectors < 2 \/ interleave_factor < 1
    THEN [ret |-> IMD_ERR_INVALID_ARG, track |-> t]
    ELSE [ret |-> 0,
          track |-> reorder_track(t,
                        gather_sources(t.smap,
                            placement(t.num_sectors, interleave_factor, 0, 0, {}),
                            0))]

(***************************************************************************)
(* imd_write_track_imd, libimd.c:1350-1577.                                *)
(***************************************************************************)
\* mutant of target_base_type: as-read compresses every uniform sector
target_base_type_asread_any(original_flag, is_uniform_sector, o) ==
    IF o.compression_mode = IMD_COMPRESSION_FORCE_DECOMPRESS
    THEN IMD_SDR_NORMAL
    ELSE (IF is_uniform_sector THEN IMD_SDR_COMPRESSED ELSE IMD_SDR_NORMAL)

\* the base type chosen by the compression_mode option (libimd.c:1446-1466)
target_base_type(original_flag, is_uniform_sector, o) ==
    IF o.compression_mode = IMD_COMPRESSION_FORCE_COMPRESS
    THEN (IF is_uniform_sector THEN IMD_SDR_COMPRESSED ELSE IMD_SDR_NORMAL)
    ELSE IF o.compression_mode = IMD_COMPRESSION_FORCE_DECOMPRESS
    THEN IMD_SDR_NORMAL
    ELSE IF IMD_SDR_IS_COMPRESSED(original_flag)
    THEN (IF is_uniform_sector THEN IMD_SDR_COMPRESSED ELSE IMD_SDR_NORMAL)
    ELSE IMD_SDR_NORMAL

\* base type and status bits combined (libimd.c:1475-1486)
combine_sflag(base_type, has_dam, has_err) ==
    IF base_type = IMD_SDR_NORMAL
    THEN IF has_dam /\ has_err THEN IMD_SDR_DELETED_ERR
         ELSE IF has_err THEN IMD_SDR_NORMAL_ERR
         ELSE IF has_dam THEN IMD_SDR_NORMAL_DAM
         ELSE IMD_SDR_NORMAL
    ELSE IF has_dam /\ has_err THEN IMD_SDR_COMPRESSED_DEL_ERR
         ELSE IF has_err THEN IMD_SDR_COMPRESSED_ERR
         ELSE IF has_dam THEN IMD_SDR_COMPRESSED_DAM
         ELSE IMD_SDR_COMPRESSED

\* mutant of final_sflag: the unavailable sector is not handled first
final_sflag_no_unavailable(original_flag, sector_data, o) ==
    combine_sflag(
        target_base_type(original_flag,
                         Len(sector_data) > 0 /\ imd_is_uniform(sector_data), o),
        IMD_SDR_HAS_DAM(original_flag) /\ ~o.force_non_deleted,
        IMD_SDR_HAS_ERR(original_flag) /\ ~o.force_non_bad)

\* the record type written for one sector (libimd.c:1409-1489)
final_sflag(original_flag, sector_data, o) ==
    IF original_flag = IMD_SDR_UNAVAILABLE THEN IMD_SDR_UNAVAILABLE
    ELSE combine_sflag(
             target_base_type(original_flag,
                              Len(sector_data) > 0 /\ imd_is_uniform(sector_data), o),
             IMD_SDR_HAS_DAM(original_flag) /\ ~o.force_non_deleted,
             IMD_SDR_HAS_ERR(original_flag) /\ ~o.force_non_bad)

\* mutant of sector_record: an unavailable sector is written with its bytes
sector_record_with_fill(write_flag, sector_data) ==
    <<write_flag>> \o
    (IF IMD_SDR_IS_COMPRESSED(write_flag)
     THEN <<uniform_fill_byte(sector_data)>>
     ELSE sector_data)

\* one Sector Data Record: the flag, then its data (libimd.c:1519-1567)
sector_record(write_flag, sector_data) ==
    <<write_flag>> \o
    (IF IMD_SDR_HAS_DATA(write_flag)
     THEN IF IMD_SDR_IS_COMPRESSED(write_flag)
          THEN <<uniform_fill_byte(sector_data)>>
          ELSE sector_data
     ELSE << >>)

\* the working copy after the interleave option is applied (1360-1393)
track_to_write(t, o) ==
    IF o.interleave_factor # LIBIMD_IL_AS_READ /\ t.num_sectors > 1
    THEN imd_apply_interleave(t,
             IF o.interleave_factor = LIBIMD_IL_BEST_GUESS
             THEN imd_calculate_best_interleave(t)
             ELSE o.interleave_factor)
    ELSE [ret |-> 0, track |-> t]

\* mode translation (1395-1405)
final_mode(t, o) ==
    IF t.mode < LIBIMD_NUM_MODES THEN o.tmode[t.mode + 1] ELSE t.mode

RECURSIVE sector_records(_, _, _)
sector_records(tw, fsf, i) ==
    IF i = tw.num_sectors THEN << >>
    ELSE sector_record(fsf[i + 1], SectorData(tw, i)) \o sector_records(tw, fsf, i + 1)

\* the record type of every sector of the working copy (libimd.c:1409-1489)
final_sflags(tw, o) ==
    [i \in 1..tw.num_sectors |->
        final_sflag(tw.sflag[i], SectorData(tw, i - 1), o)]

\* the five header bytes (libimd.c:1494-1502)
track_header_bytes(tw, o) ==
    <<LowByte(final_mode(tw, o)), tw.cyl, BitOr(tw.head, tw.hflag),
      tw.num_sectors, tw.sector_size_code>>

\* smap and the maps the head flags announce (libimd.c:1505-1516)
track_map_bytes(tw) ==
    IF tw.num_sectors > 0
    THEN tw.smap
         \o (IF Bit(tw.hflag, 7) = 1 THEN tw.cmap ELSE << >>)
         \o (IF Bit(tw.hflag, 6) = 1 THEN tw.hmap ELSE << >>)
    ELSE << >>

\* header, maps and sector records of the working copy tw, whose record
\* types are fsf (libimd.c:1494-1567)
write_records(tw, fsf, o) ==
    [ret |-> 0,
     out |-> track_header_bytes(tw, o) \o track_map_bytes(tw)
             \o sector_records(tw, fsf, 0),
     final_sflag |-> fsf, tw |-> tw]

\* imd_write_track_imd after the interleave step, whose result is il
\* (libimd.c:1395-1577)
write_working_copy(il, o) ==
    IF il.ret # 0
    THEN [ret |-> il.ret, out |-> << >>, final_sflag |-> << >>, tw |-> il.track]
    ELSE IF \E i \in 0..(il.track.num_sectors - 1) :
               /\ il.track.sflag[i + 1] # IMD_SDR_UNAVAILABLE
               /\ Len(il.track.data) < (i + 1) * il.track.sector_size
               /\ il.track.sector_size > 0
    THEN [ret |-> IMD_ERR_INVALID_ARG, out |-> << >>, final_sflag |-> << >>,
          tw |-> il.track]
    ELSE write_records(il.track, final_sflags(il.track, o), o)

imd_write_track_imd(t, o) ==
    IF ~t.loaded
    THEN [ret |-> IMD_ERR_INVALID_ARG, out |-> << >>, final_sflag |-> << >>, tw |-> t]
    ELSE write_working_copy(track_to_write(t, o), o)

IdentityModeMap == <<0, 1, 2, 3, 4, 5>>

\* default_libimdf_write_opts, libimdf.c:41-47
default_libimdf_write_opts ==
    [compression_mode |-> IMD_COMPRESSION_AS_READ,
     force_non_bad |-> FALSE,
     force_non_deleted |-> FALSE,
     tmode |-> IdentityModeMap,
     interleave_factor |-> LIBIMD_IL_AS_READ]

(***************************************************************************)
(* libimdf: the image handle and the file behind it.                       *)
(*                                                                         *)
(* A file is its header line, kept as the two fields the library reads and *)
(* writes (the version string and the time stamp), and its body: the bytes *)
(* after the header line, i.e. the comment, the 0x1A marker and the track  *)
(* records.  An ImdImageFile is a record of the fields of the struct at    *)
(* libimdf.c:51-68; tracks is the array tracks[0..num_tracks-1].           *)
(***************************************************************************)
\* map_libimd_error, libimdf.c:95-120
map_libimd_error(imd_err) ==
    IF imd_err = 0 \/ imd_err = 1 THEN IMDF_ERR_OK
    ELSE IF imd_err = IMD_ERR_READ_ERROR \/ imd_err = IMD_ERR_WRITE_ERROR
    THEN IMDF_ERR_IO
    ELSE IF imd_err = IMD_ERR_INVALID_ARG THEN IMDF_ERR_INVALID_ARG
    ELSE IF imd_err = IMD_ERR_SECTOR_NOT_FOUND THEN IMDF_ERR_NOT_FOUND
    ELSE IMDF_ERR_LIBIMD_ERR

\* imd_read_comment_block, libimd.c:191-268: the bytes up to the first 0x1A
RECURSIVE imd_read_comment_block(_, _)
imd_read_comment_block(body, pos) ==
    IF pos >= Len(body) THEN [ok |-> FALSE, comment |-> << >>, pos |-> pos]
    ELSE IF body[pos + 1] = LIBIMD_COMMENT_EOF_MARKER
    THEN [ok |-> TRUE, comment |-> SubSeq(body, 1, pos), pos |-> pos + 1]
    ELSE imd_read_comment_block(body, pos + 1)

\* imd_write_comment_block, libimd.c:314-329
imd_write_comment_block(comment) == comment \o <<LIBIMD_COMMENT_EOF_MARKER>>

\* the track loop of imdf_open, libimdf.c:369-407; r is what imd_load_track
\* returned for the track at the current position
RECURSIVE load_tracks(_, _, _)
track_loaded(body, tracks, r) ==
    IF r.ret = 1 THEN load_tracks(body, r.pos, Append(tracks, r.track))
    ELSE IF r.ret = 0 THEN [ret |-> IMDF_ERR_OK, tracks |-> tracks]
    ELSE [ret |-> map_libimd_error(r.ret), tracks |-> << >>]

load_tracks(body, pos, tracks) ==
    track_loaded(body, tracks, imd_load_track(body, pos, LIBIMD_FILL_BYTE_DEFAULT))

\* the handle before imdf_open has filled it (calloc, libimdf.c:313)
NoImage ==
    [open |-> FALSE, write_protected |-> FALSE, read_only_open |-> FALSE,
     version |-> "", comment |-> << >>, tracks |-> << >>,
     max_cyl |-> 0, max_head |-> 0, max_spt |-> 0]

\* the end of imdf_open: c is the comment read, t the result of the track loop
\* (libimdf.c:409-434)
opened_image(f, read_only, c, t) ==
    IF t.ret # IMDF_ERR_OK THEN [ret |-> t.ret, imdf |-> NoImage]
    ELSE [ret |-> IMDF_ERR_OK,
          imdf |-> [open |-> TRUE,
                    write_protected |-> read_only,
                    read_only_open |-> read_only,
                    version |-> f.version,
                    comment |-> c.comment,
                    tracks |-> t.tracks,
                    max_cyl |-> 255, max_head |-> 255, max_spt |-> 255]]

\* imdf_open after the comment block is read (libimdf.c:342-407)
open_tracks(f, read_only, c) ==
    IF ~c.ok THEN [ret |-> IMDF_ERR_LIBIMD_ERR, imdf |-> NoImage]
    ELSE opened_image(f, read_only, c, load_tracks(f.body, c.pos, << >>))

\* imdf_open, libimdf.c:295-434
imdf_open(f, read_only) ==
    open_tracks(f, read_only, imd_read_comment_block(f.body, 0))

\* find_track_index_internal, libimdf.c:73-81 (0-based, -1 if absent)
find_track_index_internal(h, cyl, head) ==
    LET hits == {i \in 1..Len(h.tracks) :
                    h.tracks[i].cyl = cyl /\ h.tracks[i].head = head}
    IN  IF hits = {} THEN 0 - 1
        ELSE (CHOOSE i \in hits : \A j \in hits : i <= j) - 1

\* find_sector_index_internal, libimdf.c:84-92 (0-based, -1 if absent)
find_sector_index_internal(t, logical_sector_id) ==
    LET hits == {i \in 1..t.num_sectors : t.smap[i] = logical_sector_id}
    IN  IF hits = {} THEN 0 - 1
        ELSE (CHOOSE i \in hits : \A j \in hits : i <= j) - 1

\* find_insertion_index, libimdf.c:262-274: a binary search over tracks
RECURSIVE insertion_search(_, _, _, _, _)
insertion_search(tracks, cyl, head, low, high) ==
    IF low >= high THEN low
    ELSE LET mid == low + ((high - low) \div 2)
             m == tracks[mid + 1]
         IN  IF m.cyl < cyl \/ (m.cyl = cyl /\ m.head < head)
             THEN insertion_search(tracks, cyl, head, mid + 1, high)
             ELSE insertion_search(tracks, cyl, head, low, mid)

find_insertion_index(h, cyl, head) ==
    insertion_search(h.tracks, cyl, head, 0, Len(h.tracks))

\* get_sector_size_code, libimdf.c:277-288 (-1 if the size is not in the table)
get_sector_size_code(sector_size) ==
    LET hits == {i \in 1..SECTOR_SIZE_LOOKUP_COUNT : SECTOR_SIZE_LOOKUP[i] = sector_size}
    IN  IF hits = {} THEN 0 - 1 ELSE (CHOOSE i \in hits : TRUE) - 1

\* the bytes now in a file region after new is written over old in place
Overwrite(new, old) == new \o SubSeq(old, Len(new) + 1, Len(old))

\* the track loop of rewrite_image_file, libimdf.c:171-192; w is what
\* imd_write_track_imd returned for track i
RECURSIVE write_tracks(_, _, _, _, _)
track_written(tracks, i, modified_track_index, modified_track_opts, out, w) ==
    IF w.ret # 0 THEN [ret |-> map_libimd_error(w.ret), out |-> out]
    ELSE write_tracks(tracks, i + 1, modified_track_index,
                      modified_track_opts, out \o w.out)

write_tracks(tracks, i, modified_track_index, modified_track_opts, out) ==
    IF i = Len(tracks) THEN [ret |-> IMDF_ERR_OK, out |-> out]
    ELSE IF ~tracks[i + 1].loaded THEN [ret |-> IMDF_ERR_LIBIMD_ERR, out |-> out]
    ELSE track_written(tracks, i, modified_track_index, modified_track_opts, out,
             imd_write_track_imd(tracks[i + 1],
                 IF i = modified_track_index THEN modified_track_opts
                 ELSE default_libimdf_write_opts))

\* the file after the header line and the bytes w.out are written from its
\* start (libimdf.c:145-255): a failed truncation is not reported and leaves
\* the old tail in place
rewritten_file(h, f, now, io, w) ==
    [version |-> IF h.version = "" \/ h.version = "Unknown"
                 THEN "1.19" ELSE h.version,
     stamp |-> now,
     body |-> IF w.ret = IMDF_ERR_OK /\ io # "trunc_fail"
              THEN w.out ELSE Overwrite(w.out, f.body)]

rewrite_result(h, f, now, io, w) ==
    [ret |-> w.ret, file |-> rewritten_file(h, f, now, io, w)]

\* rewrite_image_file, libimdf.c:129-259.  now is the clock read by
\* imd_write_file_header; io is what the stream calls do.
rewrite_image_file(h, f, modified_track_index, modified_track_opts, now, io) ==
    IF io = "seek_fail" THEN [ret |-> IMDF_ERR_IO, file |-> f]
    ELSE rewrite_result(h, f, now, io,
             write_tracks(h.tracks, 0, modified_track_index, modified_track_opts,
                          imd_write_comment_block(h.comment)))

\* imdf_set_geometry, libimdf.c:461-468
imdf_set_geometry(h, max_cyl, max_head, max_spt) ==
    [ret |-> IMDF_ERR_OK,
     imdf |-> [h EXCEPT !.max_cyl = max_cyl, !.max_head = max_head,
                        !.max_spt = max_spt]]

\* mutant of imdf_set_write_protect: a read-only image can be unprotected
imdf_set_write_protect_any(h, protect) ==
    [ret |-> IMDF_ERR_OK, imdf |-> [h EXCEPT !.write_protected = protect]]

\* imdf_set_write_protect, libimdf.c:480-488
imdf_set_write_protect(h, protect) ==
    IF ~protect /\ h.read_only_open
    THEN [ret |-> IMDF_ERR_WRITE_PROTECTED, imdf |-> h]
    ELSE [ret |-> IMDF_ERR_OK, imdf |-> [h EXCEPT !.write_protected = protect]]

\* the CHS check against the geometry limits, libimdf.c:590-591 and 769-770
outside_geometry(h, cyl, head) ==
    \/ h.max_cyl # 255 /\ cyl > h.max_cyl
    \/ h.max_head # 255 /\ head > h.max_head

\* mutant of read_found_sector: the buffer size is looked at first
read_found_sector_size_first(h, t, sector_idx, buffer) ==
    IF sector_idx < 0 THEN [ret |-> IMDF_ERR_NOT_FOUND, imdf |-> h, buffer |-> buffer]
    ELSE IF Len(buffer) < t.sector_size
    THEN [ret |-> IMDF_ERR_BUFFER_SIZE, imdf |-> h, buffer |-> buffer]
    ELSE IF t.sflag[sector_idx + 1] = IMD_SDR_UNAVAILABLE
    THEN [ret |-> IMDF_ERR_UNAVAILABLE, imdf |-> h, buffer |-> buffer]
    ELSE [ret |-> IMDF_ERR_OK, imdf |-> h,
          buffer |-> SectorData(t, sector_idx)
                     \o SubSeq(buffer, t.sector_size + 1, Len(buffer))]

\* imdf_read_sector once the track t is found and the sector looked up
\* (libimdf.c:554-571); buffer is the caller's buffer, of buffer_size bytes
read_found_sector(h, t, sector_idx, buffer) ==
    IF sector_idx < 0 THEN [ret |-> IMDF_ERR_NOT_FOUND, imdf |-> h, buffer |-> buffer]
    ELSE IF t.sflag[sector_idx + 1] = IMD_SDR_UNAVAILABLE
    THEN [ret |-> IMDF_ERR_UNAVAILABLE, imdf |-> h, buffer |-> buffer]
    ELSE IF Len(buffer) < t.sector_size
    THEN [ret |-> IMDF_ERR_BUFFER_SIZE, imdf |-> h, buffer |-> buffer]
    ELSE IF Len(t.data) < (sector_idx + 1) * t.sector_size
    THEN [ret |-> IMDF_ERR_LIBIMD_ERR, imdf |-> h, buffer |-> buffer]
    ELSE [ret |-> IMDF_ERR_OK, imdf |-> h,
          buffer |-> SectorData(t, sector_idx)
                     \o SubSeq(buffer, t.sector_size + 1, Len(buffer))]

\* imdf_read_sector once the track is looked up (libimdf.c:550-553)
read_sector_in_track(h, track_idx, logical_sector_id, buffer) ==
    IF track_idx < 0
    THEN [ret |-> IMDF_ERR_NOT_FOUND, imdf |-> h, buffer |-> buffer]
    ELSE read_found_sector(h, h.tracks[track_idx + 1],
             find_sector_index_internal(h.tracks[track_idx + 1], logical_sector_id),
             buffer)

\* imdf_read_sector, libimdf.c:534-572
imdf_read_sector(h, cyl, head, logical_sector_id, buffer) ==
    IF \/ outside_geometry(h, cyl, head)
       \/ (h.max_spt # 255 /\ logical_sector_id > h.max_spt
           /\ logical_sector_id # 0)
    THEN [ret |-> IMDF_ERR_GEOMETRY, imdf |-> h, buffer |-> buffer]
    ELSE read_sector_in_track(h, find_track_index_internal(h, cyl, head),
                              logical_sector_id, buffer)

\* the sflag written back for sector i after a forced-uncompressed rewrite,
\* libimdf.c:663-678
uncompressed_sflag(current_sflag_val) ==
    combine_sflag(IMD_SDR_NORMAL, IMD_SDR_HAS_DAM(current_sflag_val),
                  IMD_SDR_HAS_ERR(current_sflag_val))

\* the sflag predicted for the edited sector, libimdf.c:686-740
predicted_sflag(original_sflag, sector_data, write_opts) ==
    LET is_uniform == imd_is_uniform(sector_data)
        final_dam == IMD_SDR_HAS_DAM(original_sflag) /\ ~write_opts.force_non_deleted
        final_err == IMD_SDR_HAS_ERR(original_sflag) /\ ~write_opts.force_non_bad
        base == IF write_opts.compression_mode = IMD_COMPRESSION_FORCE_DECOMPRESS
                THEN IMD_SDR_NORMAL
                ELSE IF is_uniform THEN IMD_SDR_COMPRESSED ELSE IMD_SDR_NORMAL
    IN  combine_sflag(base, final_dam, final_err)

\* mutant of write_sector_check: write_protected is not looked at
write_sector_check_unprotected(h, cyl, head, logical_sector_id, buffer) ==
    LET track_idx == find_track_index_internal(h, cyl, head)
        t == h.tracks[track_idx + 1]
        sector_idx == find_sector_index_internal(t, logical_sector_id)
    IN  IF outside_geometry(h, cyl, head) THEN IMDF_ERR_GEOMETRY
        ELSE IF track_idx < 0 THEN IMDF_ERR_NOT_FOUND
        ELSE IF sector_idx < 0 THEN IMDF_ERR_NOT_FOUND
        ELSE IF h.max_spt # 255 /\ logical_sector_id > h.max_spt
                /\ logical_sector_id # 0
        THEN IMDF_ERR_GEOMETRY
        ELSE IF Len(buffer) # t.sector_size THEN IMDF_ERR_SECTOR_SIZE
        ELSE IF Len(t.data) < (sector_idx + 1) * t.sector_size
        THEN IMDF_ERR_LIBIMD_ERR
        ELSE IMDF_ERR_OK

\* the validation chain of imdf_write_sector, libimdf.c:586-617: the error
\* returned before anything is changed, or IMDF_ERR_OK
write_sector_check(h, cyl, head, logical_sector_id, buffer) ==
    LET track_idx == find_track_index_internal(h, cyl, head)
        t == h.tracks[track_idx + 1]
        sector_idx == find_sector_index_internal(t, logical_sector_id)
    IN  IF h.write_protected THEN IMDF_ERR_WRITE_PROTECTED
        ELSE IF outside_geometry(h, cyl, head) THEN IMDF_ERR_GEOMETRY
        ELSE IF track_idx < 0 THEN IMDF_ERR_NOT_FOUND
        ELSE IF sector_idx < 0 THEN IMDF_ERR_NOT_FOUND
        ELSE IF h.max_spt # 255 /\ logical_sector_id > h.max_spt
                /\ logical_sector_id # 0
        THEN IMDF_ERR_GEOMETRY
        ELSE IF Len(buffer) # t.sector_size THEN IMDF_ERR_SECTOR_SIZE
        ELSE IF Len(t.data) < (sector_idx + 1) * t.sector_size
        THEN IMDF_ERR_LIBIMD_ERR
        ELSE IMDF_ERR_OK

\* the end of imdf_write_sector (libimdf.c:653-743): rw is what
\* rewrite_image_file returned, copied the track with the buffer copied in,
\* updated that track with the sflags set after a successful rewrite
write_sector_result(h, track_idx, sector_idx, copied, updated, rw) ==
    [ret |-> rw.ret,
     imdf |-> [h EXCEPT !.tracks[track_idx + 1] =
                  IF rw.ret # IMDF_ERR_OK THEN copied ELSE updated],
     file |-> rw.file,
     target |-> <<track_idx, sector_idx>>]

\* mutant of sector_write_opts: every edit is rewritten as read
sector_write_opts_as_read(original_sflag, buffer) ==
    [default_libimdf_write_opts EXCEPT !.compression_mode = IMD_COMPRESSION_AS_READ]

\* the options imdf_write_sector rewrites the edited track with
\* (libimdf.c:625-650): forced uncompressed when a compressed sector gets
\* non-uniform data, as read otherwise
sector_write_opts(original_sflag, buffer) ==
    [default_libimdf_write_opts EXCEPT !.compression_mode =
        IF IMD_SDR_IS_COMPRESSED(original_sflag) /\ ~imd_is_uniform(buffer)
        THEN IMD_COMPRESSION_FORCE_DECOMPRESS
        ELSE IMD_COMPRESSION_AS_READ]

\* imdf_write_sector once the track and the sector are found
\* (libimdf.c:619-743)
write_found_sector(h, f, track_idx, sector_idx, buffer, now, io) ==
    LET t == h.tracks[track_idx + 1]
        uncompressed == IMD_SDR_IS_COMPRESSED(t.sflag[sector_idx + 1])
                        /\ ~imd_is_uniform(buffer)
        write_opts == sector_write_opts(t.sflag[sector_idx + 1], buffer)
        copied == [t EXCEPT !.data =
                      SubSeq(t.data, 1, sector_idx * t.sector_size)
                      \o buffer
                      \o SubSeq(t.data, (sector_idx + 1) * t.sector_size + 1,
                                Len(t.data))]
    IN  write_sector_result(h, track_idx, sector_idx, copied,
            IF uncompressed
            THEN [copied EXCEPT !.sflag =
                     [i \in 1..t.num_sectors |-> uncompressed_sflag(t.sflag[i])]]
            ELSE [copied EXCEPT !.sflag[sector_idx + 1] =
                     predicted_sflag(t.sflag[sector_idx + 1], buffer, write_opts)],
            rewrite_image_file([h EXCEPT !.tracks[track_idx + 1] = copied],
                               f, track_idx, write_opts, now, io))

\* imdf_write_sector once the track is found
write_sector_in_track(h, f, track_idx, logical_sector_id, buffer, now, io) ==
    write_found_sector(h, f, track_idx,
        find_sector_index_internal(h.tracks[track_idx + 1], logical_sector_id),
        buffer, now, io)

\* imdf_write_sector, libimdf.c:576-744
imdf_write_sector(h, f, cyl, head, logical_sector_id, buffer, now, io) ==
    IF write_sector_check(h, cyl, head, logical_sector_id, buffer) # IMDF_ERR_OK
    THEN [ret |-> write_sector_check(h, cyl, head, logical_sector_id, buffer),
          imdf |-> h, file |-> f, target |-> << >>]
    ELSE write_sector_in_track(h, f, find_track_index_internal(h, cyl, head),
                               logical_sector_id, buffer, now, io)

\* the validation chain of imdf_write_track, libimdf.c:766-783.  A map that
\* is not passed (NULL) is the empty sequence.
write_track_check(h, cyl, head, num_sectors, sector_size, smap, cmap, hmap) ==
    IF h.write_protected THEN IMDF_ERR_WRITE_PROTECTED
    ELSE IF outside_geometry(h, cyl, head) THEN IMDF_ERR_GEOMETRY
    ELSE IF num_sectors > 0 /\ smap = << >> /\ (cmap # << >> \/ hmap # << >>)
    THEN IMDF_ERR_INVALID_ARG
    ELSE IF get_sector_size_code(sector_size) < 0 THEN IMDF_ERR_SECTOR_SIZE
    ELSE IMDF_ERR_OK

\* mutant of new_track: the sector numbering map is always 1..n
new_track_default_smap(cyl, head, num_sectors, sector_size, fill_byte, smap, cmap, hmap) ==
    LET n == num_sectors
        with_cmap == n > 0 /\ cmap # << >>
        with_hmap == n > 0 /\ hmap # << >>
    IN  [ZeroTrack EXCEPT
            !.cyl = cyl, !.head = head, !.num_sectors = n,
            !.sector_size_code = get_sector_size_code(sector_size),
            !.sector_size = sector_size,
            !.mode = IMD_MODE_MFM_250,
            !.loaded = TRUE,
            !.hflag = (IF with_cmap THEN IMD_HFLAG_CMAP_PRES ELSE 0)
                      + (IF with_hmap THEN IMD_HFLAG_HMAP_PRES ELSE 0),
            !.data = Fill(fill_byte, n * sector_size),
            !.sflag = Fill(IMD_SDR_NORMAL, n),
            !.smap = [i \in 1..n |-> i],
            !.cmap = IF with_cmap THEN SubSeq(cmap, 1, n) ELSE Fill(0, n),
            !.hmap = IF with_hmap THEN SubSeq(hmap, 1, n) ELSE Fill(0, n)]

\* the track imdf_write_track builds, libimdf.c:820-865
new_track(cyl, head, num_sectors, sector_size, fill_byte, smap, cmap, hmap) ==
    LET n == num_sectors
        with_cmap == n > 0 /\ cmap # << >>
        with_hmap == n > 0 /\ hmap # << >>
    IN  [ZeroTrack EXCEPT
            !.cyl = cyl, !.head = head, !.num_sectors = n,
            !.sector_size_code = get_sector_size_code(sector_size),
            !.sector_size = sector_size,
            !.mode = IMD_MODE_MFM_250,
            !.loaded = TRUE,
            !.hflag = (IF with_cmap THEN IMD_HFLAG_CMAP_PRES ELSE 0)
                      + (IF with_hmap THEN IMD_HFLAG_HMAP_PRES ELSE 0),
            !.data = Fill(fill_byte, n * sector_size),
            !.sflag = Fill(IMD_SDR_NORMAL, n),
            !.smap = IF smap # << >> THEN SubSeq(smap, 1, n) ELSE [i \in 1..n |-> i],
            !.cmap = IF with_cmap THEN SubSeq(cmap, 1, n) ELSE Fill(0, n),
            !.hmap = IF with_hmap THEN SubSeq(hmap, 1, n) ELSE Fill(0, n)]

\* the tracks array with t put at index i (0-based), the rest moved up
insert_track(tracks, i, t) ==
    SubSeq(tracks, 1, i) \o <<t>> \o SubSeq(tracks, i + 1, Len(tracks))

\* the end of imdf_write_track (libimdf.c:873-906): rw is what
\* rewrite_image_file returned, h1 the handle with the new track in place.  A
\* failed rewrite takes an inserted track out again and leaves a replaced
\* one; a successful one marks every sector of the track compressed.
write_track_result(h, h1, existing_track, insert_idx, num_sectors, rw) ==
    IF rw.ret # IMDF_ERR_OK
    THEN [ret |-> rw.ret,
          imdf |-> IF existing_track THEN h1 ELSE h,
          file |-> rw.file, target |-> <<insert_idx>>]
    ELSE [ret |-> IMDF_ERR_OK,
          imdf |-> [h1 EXCEPT !.tracks[insert_idx + 1].sflag =
                       Fill(IMD_SDR_COMPRESSED, num_sectors)],
          file |-> rw.file, target |-> <<insert_idx>>]

\* imdf_write_track with the track t put at insert_idx (libimdf.c:785-906)
write_track_at(h, f, existing_track, insert_idx, t, now, io) ==
    LET h1 == [h EXCEPT !.tracks =
                  IF existing_track THEN [h.tracks EXCEPT ![insert_idx + 1] = t]
                  ELSE insert_track(h.tracks, insert_idx, t)]
    IN  write_track_result(h, h1, existing_track, insert_idx, t.num_sectors,
            rewrite_image_file(h1, f, insert_idx,
                [default_libimdf_write_opts EXCEPT
                    !.compression_mode = IMD_COMPRESSION_FORCE_COMPRESS],
                now, io))

\* imdf_write_track, libimdf.c:748-907
imdf_write_track(h, f, cyl, head, num_sectors, sector_size, fill_byte, smap, cmap, hmap, now, io) ==
    IF write_track_check(h, cyl, head, num_sectors, sector_size,
                         smap, cmap, hmap) # IMDF_ERR_OK
    THEN [ret |-> write_track_check(h, cyl, head, num_sectors, sector_size,
                                    smap, cmap, hmap),
          imdf |-> h, file |-> f, target |-> << >>]
    ELSE write_track_at(h, f, find_track_index_internal(h, cyl, head) >= 0,
             IF find_track_index_internal(h, cyl, head) >= 0
             THEN find_track_index_internal(h, cyl, head)
             ELSE find_insertion_index(h, cyl, head),
             new_track(cyl, head, num_sectors, sector_size, fill_byte,
                       smap, cmap, hmap),
             now, io)

(***************************************************************************)
(* libimdchk: the consistency check of an image file.  The failure mask    *)
(* and the error mask are the C integers; MaskOr and MaskAnd are | and &   *)
(* on their 14 bits (libimdchk.h:22-35).                                   *)
(***************************************************************************)
CHECK_BIT_HEADER == 1
CHECK_BIT_COMMENT_TERM == 2
CHECK_BIT_TRACK_READ == 4
CHECK_BIT_FTELL == 8
CHECK_BIT_CON_CYL == 16
CHECK_BIT_CON_HEAD == 32
CHECK_BIT_CON_SECTORS == 64
CHECK_BIT_SEQ_CYL_DEC == 128
CHECK_BIT_SEQ_HEAD_ORDER == 256
CHECK_BIT_DUPE_SID == 512
CHECK_BIT_INV_SFLAG_VALUE == 1024
CHECK_BIT_SFLAG_DATA_ERR == 2048
CHECK_BIT_SFLAG_DEL_DAM == 4096
CHECK_BIT_DIFF_MAX_CYL == 8192

MaskOr(a, b) ==
    LET o[k \in 0..14] == IF k = 14 THEN 0
                          ELSE (IF Bit(a, k) = 1 \/ Bit(b, k) = 1 THEN 2 ^ k ELSE 0)
                               + o[k + 1]
    IN  o[0]

MaskAnd(a, b) ==
    LET o[k \in 0..14] == IF k = 14 THEN 0
                          ELSE (IF Bit(a, k) = 1 /\ Bit(b, k) = 1 THEN 2 ^ k ELSE 0)
                               + o[k + 1]
    IN  o[0]

DEFAULT_ERROR_MASK ==
    CHECK_BIT_HEADER + CHECK_BIT_COMMENT_TERM + CHECK_BIT_TRACK_READ
    + CHECK_BIT_FTELL + CHECK_BIT_CON_CYL + CHECK_BIT_CON_HEAD
    + CHECK_BIT_CON_SECTORS + CHECK_BIT_DUPE_SID + CHECK_BIT_INV_SFLAG_VALUE

\* the ImdChkResults after the memset and the -1 fields (libimdchk.c:129-133)
InitialResults ==
    [check_failures_mask |-> 0, total_sector_count |-> 0,
     unavailable_sector_count |-> 0, deleted_sector_count |-> 0,
     compressed_sector_count |-> 0, data_error_sector_count |-> 0,
     track_read_count |-> 0, max_cyl_side0 |-> -1, max_cyl_side1 |-> -1,
     max_head_seen |-> -1, detected_interleave |-> -1]

\* results with bit set in the failure mask
failed(results, bit) ==
    [results EXCEPT !.check_failures_mask = MaskOr(@, bit)]

check_smap_consistency_internal(t, results) ==
    IF t.num_sectors <= 1 THEN results
    ELSE IF \E i \in 1..t.num_sectors : \E j \in 1..(i - 1) : t.smap[j] = t.smap[i]
    THEN failed(results, CHECK_BIT_DUPE_SID)
    ELSE results

check_sflag_consistency_and_stats_internal(t, results) ==
    LET idx == 1..t.num_sectors
        with_data == {i \in idx : IMD_SDR_HAS_DATA(t.sflag[i])}
        dam == {i \in with_data : IMD_SDR_HAS_DAM(t.sflag[i])}
        err == {i \in with_data : IMD_SDR_HAS_ERR(t.sflag[i])}
        counted ==
            [results EXCEPT
               !.total_sector_count = @ + t.num_sectors,
               !.unavailable_sector_count = @ + Cardinality(idx \ with_data),
               !.compressed_sector_count =
                   @ + Cardinality({i \in with_data : IMD_SDR_IS_COMPRESSED(t.sflag[i])}),
               !.deleted_sector_count = @ + Cardinality(dam),
               !.data_error_sector_count = @ + Cardinality(err)]
        invalid == IF \E i \in idx : t.sflag[i] > IMD_SDR_COMPRESSED_DEL_ERR
                   THEN failed(counted, CHECK_BIT_INV_SFLAG_VALUE) ELSE counted
        data_err == IF err # {} THEN failed(invalid, CHECK_BIT_SFLAG_DATA_ERR)
                    ELSE invalid
    IN  IF dam # {} THEN failed(data_err, CHECK_BIT_SFLAG_DEL_DAM) ELSE data_err

determine_interleave_internal(smap, num_sectors) ==
    IF num_sectors < 2 THEN 1
    ELSE LET first_sector_id == smap[1]
             next_logical_id == IF first_sector_id = 0 THEN 1
                                ELSE LowByte(first_sector_id + 1)
             First(S) == CHOOSE x \in S : \A y \in S : x <= y
             Pos(id) == {i \in 1..(num_sectors - 1) : smap[i + 1] = id}
             wrap_around_id ==
                 IF first_sector_id > 1
                 THEN First({smap[i] : i \in 1..num_sectors})
                 ELSE IF first_sector_id = 0 THEN 0 ELSE 1
         IN  IF Pos(next_logical_id) # {} THEN First(Pos(next_logical_id))
             ELSE IF Pos(wrap_around_id) # {} THEN First(Pos(wrap_around_id))
             ELSE 0

\* what the scan notes of a track it read: the header fields, the maps and
\* the check at which its pass through the loop ended
Scanned(t, stage) ==
    [cyl |-> t.cyl, head |-> t.head, num_sectors |-> t.num_sectors,
     smap |-> t.smap, sflag |-> t.sflag, stage |-> stage]

\* libimdchk.c:224-227: the sector map and the sector flags of track t
check_maps_and_flags(c, t, mapped) ==
    IF MaskAnd(MaskAnd(c.options.error_mask, CHECK_BIT_DUPE_SID),
               mapped.check_failures_mask) # 0
    THEN [c EXCEPT !.results = mapped, !.scanned = Append(@, Scanned(t, "smap"))]
    ELSE [c EXCEPT !.results = check_sflag_consistency_and_stats_internal(t, mapped),
                   !.scanned = Append(@, Scanned(t, "sflag"))]

\* libimdchk.c:210-222: the order of track t after the last one
check_sequence(c, t) ==
    LET cyl_dec == IF ~c.first_track /\ t.cyl < c.last_cyl
                   THEN failed(c.results, CHECK_BIT_SEQ_CYL_DEC) ELSE c.results
        ordered == IF /\ ~c.first_track
                      /\ t.cyl = c.last_cyl /\ t.head <= c.last_head
                      /\ ~(t.head = 0 /\ c.last_head > 0)
                   THEN failed(cyl_dec, CHECK_BIT_SEQ_HEAD_ORDER) ELSE cyl_dec
    IN  IF /\ ~c.first_track
           /\ MaskAnd(MaskAnd(c.options.error_mask,
                              CHECK_BIT_SEQ_CYL_DEC + CHECK_BIT_SEQ_HEAD_ORDER),
                      ordered.check_failures_mask) # 0
        THEN [c EXCEPT !.results = ordered,
                       !.scanned = Append(@, Scanned(t, "sequence"))]
        ELSE check_maps_and_flags(
                 [c EXCEPT !.last_cyl = t.cyl, !.last_head = t.head,
                           !.first_track = FALSE],
                 t, check_smap_consistency_internal(t, ordered))

\* libimdchk.c:201-207: the summary fields
update_summary(results, t) ==
    [results EXCEPT
       !.max_cyl_side0 = IF t.head = 0 /\ t.cyl > @ THEN t.cyl ELSE @,
       !.max_cyl_side1 = IF t.head = 1 /\ t.cyl > @ THEN t.cyl ELSE @,
       !.max_head_seen = IF t.head > @ THEN t.head ELSE @,
       !.detected_interleave =
           IF @ = -1 /\ t.num_sectors > 0
           THEN determine_interleave_internal(t.smap, t.num_sectors) ELSE @]

\* libimdchk.c:185-199: the constraints of the options on track t
check_constraints(c, t) ==
    LET o == c.options
        con_cyl == o.max_allowed_cyl # -1 /\ t.cyl > o.max_allowed_cyl
        con_head == o.required_head # -1 /\ t.head # o.required_head
        con_sectors == o.max_allowed_sectors # -1
                       /\ t.num_sectors > o.max_allowed_sectors
        r1 == IF con_cyl THEN failed(c.results, CHECK_BIT_CON_CYL) ELSE c.results
        r2 == IF con_head THEN failed(r1, CHECK_BIT_CON_HEAD) ELSE r1
        r3 == IF con_sectors THEN failed(r2, CHECK_BIT_CON_SECTORS) ELSE r2
    IN  IF /\ con_cyl \/ con_head \/ con_sectors
           /\ MaskAnd(o.error_mask, CHECK_BIT_CON_CYL + CHECK_BIT_CON_HEAD
                                    + CHECK_BIT_CON_SECTORS) # 0
        THEN [c EXCEPT !.results = r3,
                       !.scanned = Append(@, Scanned(t, "constraint"))]
        ELSE check_sequence([c EXCEPT !.results = update_summary(r3, t)], t)

\* libimdchk.c:175-183: one pass through the loop once
\* imd_read_track_header_and_flags returned r; at is where the scan
\* goes on
check_track_read(c, r) ==
    IF r.ret = 0 THEN [c EXCEPT !.at = "check_end"]
    ELSE IF r.ret < 0
    THEN [c EXCEPT !.results = failed(@, CHECK_BIT_TRACK_READ),
                   !.at = IF MaskAnd(c.options.error_mask, CHECK_BIT_TRACK_READ) # 0
                          THEN "check_end" ELSE "check_loop"]
    ELSE check_constraints(
             [c EXCEPT !.results.track_read_count = @ + 1, !.at = "check_loop"],
             r.track)

\* libimdchk.c:164-170: a pass through the loop in which ftell failed
check_ftell_failed(c) ==
    [c EXCEPT !.results = failed(@, CHECK_BIT_FTELL),
              !.at = IF MaskAnd(c.options.error_mask, CHECK_BIT_FTELL) # 0
                     THEN "check_end" ELSE "check_loop"]

\* libimdchk.c:234-241: after the loop
check_finish(c) ==
    LET r == c.results
    IN  [c EXCEPT
           !.results = IF /\ r.max_head_seen > 0
                          /\ r.max_cyl_side0 # -1 /\ r.max_cyl_side1 # -1
                          /\ r.max_cyl_side0 # r.max_cyl_side1
                       THEN failed(r, CHECK_BIT_DIFF_MAX_CYL) ELSE r,
           !.ret = 0, !.at = "check_done"]

\* libimdchk.c:142-160: the file header and the comment block were read
\* with the results header and comment (0 when they are well formed)
check_preamble(c, header, comment) ==
    LET r1 == IF header # 0 THEN failed(c.results, CHECK_BIT_HEADER) ELSE c.results
        r2 == IF comment # 0 THEN failed(r1, CHECK_BIT_COMMENT_TERM) ELSE r1
    IN  IF header # 0 /\ MaskAnd(c.options.error_mask, CHECK_BIT_HEADER) # 0
        THEN [c EXCEPT !.results = r1, !.ret = -1, !.at = "check_done"]
        ELSE IF comment # 0 /\ MaskAnd(c.options.error_mask, CHECK_BIT_COMMENT_TERM) # 0
        THEN [c EXCEPT !.results = r2, !.ret = -1, !.at = "check_done"]
        ELSE [c EXCEPT !.results = r2, !.at = "check_loop"]

(***************************************************************************)
(* State.                                                                  *)
(*   fimd, fpos : an input stream and its position                         *)
(*   track      : the ImdTrackInfo a codec function works on               *)
(*   opts       : the ImdWriteOpts passed to imd_write_track_imd           *)
(*   fout       : the bytes written to the output stream                   *)
(*   wres       : what the last codec call returned and produced, and for  *)
(*                a read from a stream where it started and how the stream *)
(*                seeks                                                    *)
(*   pc         : the position of the caller of the codec                  *)
(*   imdf       : the ImdImageFile handle                                  *)
(*   file       : the file behind the handle                               *)
(*   call       : the last libimdf call made: which, its return code, the  *)
(*                track and sector index it worked on, the protect         *)
(*                argument of imdf_set_write_protect, the arguments of     *)
(*                imdf_read_sector and imdf_write_track, the caller's      *)
(*                buffer after imdf_read_sector, and the sflags that the   *)
(*                track imdf_write_sector found had before                 *)
(*   ncalls     : the number of libimdf calls made                         *)
(*   chk        : the state of imdchk_check_file: its options, its results,*)
(*                its locals last_cyl, last_head and first_track, the      *)
(*                tracks it has read so far, its return value, where it is *)
(*                in its loop, and whether ftell works on the stream       *)
(***************************************************************************)
VARIABLES fimd, fpos, track, opts, fout, wres, pc, imdf, file, call, ncalls, chk

cvars == <<fimd, fpos, track, opts, fout, wres, pc>>

ivars == <<imdf, file, call, ncalls>>

vars == <<fimd, fpos, track, opts, fout, wres, pc, imdf, file, call, ncalls, chk>>

NoFile == [version |-> "", stamp |-> 0, body |-> << >>]

NoCall ==
    [op |-> "none", ret |-> 0, target |-> << >>, protect |-> FALSE,
     args |-> << >>, buffer |-> << >>, before |-> << >>]

(***************************************************************************)
(* Input track records, as imd_load_track reads them (libimd.c:440-628):   *)
(* the 5 header bytes, smap, the optional cmap and hmap, and one Sector    *)
(* Data Record per sector.                                                 *)
(***************************************************************************)
SmapKinds == {"asc", "rot", "desc", "dup"}

InputSmap(kind, n) ==
    [i \in 1..n |-> IF kind = "asc" THEN i
                    ELSE IF kind = "rot" THEN (i % n) + 1
                    ELSE IF kind = "desc" THEN n + 1 - i
                    ELSE (i + 1) \div 2]

InputFlags(base, n) == [i \in 1..n |-> (base + 4 * (i - 1)) % 9]

ContentKinds == {"U", "SN"}

\* the bytes of sector i: uniform, or uniform but for the last byte
InputContent(kind, i, size) ==
    [k \in 1..size |-> IF kind = "SN" /\ k = size THEN 255 ELSE 16 * i]

InputSectorRecord(flag, content) ==
    <<flag>> \o (IF flag = IMD_SDR_UNAVAILABLE THEN << >>
                 ELSE IF flag % 2 = 0 THEN <<content[1]>>
                 ELSE content)

RECURSIVE InputSectorRecords(_, _, _, _)
InputSectorRecords(flags, kind, size, i) ==
    IF i > Len(flags) THEN << >>
    ELSE InputSectorRecord(flags[i], InputContent(kind, i, size))
         \o InputSectorRecords(flags, kind, size, i + 1)

\* the head byte of a record: no flags; head 1 with CMAP and HMAP; HMAP and a
\* reserved flag bit
HeadBytes == <<0, 193, 80>>

InputTrackRecord(base, n, code, skind, ckind) ==
    LET head_byte == HeadBytes[(base % 3) + 1]
    IN
    <<base % 6, 7, head_byte, n, code>>
    \o InputSmap(skind, n)
    \o (IF Bit(head_byte, 7) = 1 THEN [i \in 1..n |-> 40 + i] ELSE << >>)
    \o (IF Bit(head_byte, 6) = 1 THEN [i \in 1..n |-> i % 2] ELSE << >>)
    \o InputSectorRecords(InputFlags(base, n), ckind, SECTOR_SIZE_LOOKUP[code + 1], 1)

InputTrackRecords ==
    {InputTrackRecord(base, n, code, sk, ck) :
        base \in 0..8, n \in 0..MaxSectors,
        code \in 0..MaxSizeCode, sk \in SmapKinds, ck \in ContentKinds}

WriteOpts ==
    [compression_mode : {IMD_COMPRESSION_AS_READ, IMD_COMPRESSION_FORCE_COMPRESS,
                         IMD_COMPRESSION_FORCE_DECOMPRESS},
     force_non_bad : BOOLEAN,
     force_non_deleted : BOOLEAN,
     tmode : {IdentityModeMap, <<3, 4, 5, 0, 1, 2>>},
     interleave_factor : {LIBIMD_IL_AS_READ, 2, LIBIMD_IL_BEST_GUESS}]

\* imdchk_check_file before it is called (libimdchk.c:120-133)
NoCheck ==
    [options |-> [error_mask |-> DEFAULT_ERROR_MASK, max_allowed_cyl |-> -1,
                  required_head |-> -1, max_allowed_sectors |-> -1],
     results |-> InitialResults, last_cyl |-> 0, last_head |-> 1,
     first_track |-> TRUE, scanned |-> << >>, ret |-> 0, at |-> "check_open",
     seekable |-> TRUE]

NoResult == [op |-> "none", ret |-> 0, track |-> ZeroTrack, final_sflag |-> << >>,
             factor |-> 0, start |-> 0, seek |-> "none"]

(***************************************************************************)
(* The codec specification: a caller loads one track record, may edit a    *)
(* compressed sector's bytes in the buffer, and then calls one of the      *)
(* codec functions on the loaded track.                                    *)
(***************************************************************************)
CodecInit ==
    /\ fimd \in InputTrackRecords
    /\ fpos = 0
    /\ track = ZeroTrack
    /\ opts = default_libimdf_write_opts
    /\ fout = << >>
    /\ wres = NoResult
    /\ pc = "start"
    /\ imdf = NoImage
    /\ file = NoFile
    /\ call = NoCall
    /\ ncalls = 0
    /\ chk = NoCheck

\* the caller's state after imd_load_track returned r
Loaded(r) ==
    /\ track' = r.track
    /\ fpos' = r.pos
    /\ wres' = [NoResult EXCEPT !.op = "load", !.ret = r.ret]
    /\ pc' = IF r.ret = 1 THEN "loaded" ELSE "failed"

LoadTrack ==
    /\ pc = "start"
    /\ Loaded(imd_load_track(fimd, fpos, LIBIMD_FILL_BYTE_DEFAULT))
    /\ UNCHANGED <<fimd, opts, fout>>
    /\ UNCHANGED <<ivars, chk>>

\* the caller overwrites the bytes of one compressed sector (as libimdf.c:623)
EditSector ==
    /\ pc = "loaded"
    /\ \E i \in 0..(track.num_sectors - 1) :
          /\ IMD_SDR_IS_COMPRESSED(track.sflag[i + 1])
          /\ track' = [track EXCEPT !.data =
                [k \in 1..Len(track.data) |->
                    IF k = i * track.sector_size + 1 THEN 254 ELSE track.data[k]]]
    /\ wres' = [NoResult EXCEPT !.op = "edit"]
    /\ pc' = "edited"
    /\ UNCHANGED <<fimd, fpos, opts, fout>>
    /\ UNCHANGED <<ivars, chk>>

ApplyInterleave ==
    /\ pc \in {"loaded", "edited"}
    /\ \E k \in 0..(MaxSectors + 1) :
          LET r == imd_apply_interleave(track, k)
          IN  wres' = [NoResult EXCEPT !.op = "apply_interleave", !.ret = r.ret,
                                       !.track = r.track, !.factor = k]
    /\ pc' = "done"
    /\ UNCHANGED <<fimd, fpos, track, opts, fout>>
    /\ UNCHANGED <<ivars, chk>>

\* the caller's state after imd_write_track_imd, called with o, returned r
Wrote(o, r) ==
    /\ opts' = o
    /\ fout' = r.out
    /\ wres' = [NoResult EXCEPT !.op = "write_track_imd", !.ret = r.ret,
                                !.track = r.tw, !.final_sflag = r.final_sflag]

WriteTrackImd ==
    /\ pc \in {"loaded", "edited"}
    /\ \E o \in WriteOpts : Wrote(o, imd_write_track_imd(track, o))
    /\ pc' = "done"
    /\ UNCHANGED <<fimd, fpos, track>>
    /\ UNCHANGED <<ivars, chk>>

BestInterleave ==
    /\ pc \in {"loaded", "edited"}
    /\ wres' = [NoResult EXCEPT !.op = "best_interleave",
                                !.ret = imd_calculate_best_interleave(track)]
    /\ pc' = "done"
    /\ UNCHANGED <<fimd, fpos, track, opts, fout>>
    /\ UNCHANGED <<ivars, chk>>

CodecNext ==
    \/ LoadTrack
    \/ EditSector
    \/ ApplyInterleave
    \/ WriteTrackImd
    \/ BestInterleave

SpecCodec == CodecInit /\ [][CodecNext]_vars

(***************************************************************************)
(* The interleave specification: the track loaded has a sector map that is *)
(* a permutation of distinct sector IDs, and the caller detects or applies *)
(* an interleave on it (imd_calculate_best_interleave, libimd.c:1187, and  *)
(* imd_apply_interleave, libimd.c:1259).                                   *)
(***************************************************************************)
SmapPermutations(n) ==
    {p \in [1..n -> 1..n] : \A i, j \in 1..n : p[i] = p[j] => i = j}

\* the two sector maps of the interleave example
ExampleSmaps == {<<1, 5, 2, 6, 3, 7, 4, 8>>, <<1, 2, 3, 4, 5, 6, 7, 8>>}

\* sector maps of distinct IDs: consecutive IDs, and IDs three apart
InterleaveSmaps ==
    ExampleSmaps \cup
    {[i \in 1..n |-> scale * p[i]] :
        <<n, p, scale>> \in {<<n, p, scale>> \in
            (0..MaxIlSectors) \X (UNION {SmapPermutations(n) : n \in 0..MaxIlSectors})
            \X {1, 3} : Len(p) = n}}

\* a track record with sector map smap: every sector is a compressed record
\* filled with the sector's ID
InterleaveTrackRecord(smap) ==
    <<5, 0, 0, Len(smap), 0>> \o smap
    \o [k \in 1..(2 * Len(smap)) |->
           IF k % 2 = 1 THEN IMD_SDR_COMPRESSED ELSE smap[k \div 2]]

InterleaveInit ==
    /\ fimd \in {InterleaveTrackRecord(smap) : smap \in InterleaveSmaps}
    /\ fpos = 0
    /\ track = ZeroTrack
    /\ opts = default_libimdf_write_opts
    /\ fout = << >>
    /\ wres = NoResult
    /\ pc = "start"
    /\ imdf = NoImage
    /\ file = NoFile
    /\ call = NoCall
    /\ ncalls = 0
    /\ chk = NoCheck

InterleaveNext ==
    \/ LoadTrack
    \/ ApplyInterleave
    \/ BestInterleave

SpecInterleave == InterleaveInit /\ [][InterleaveNext]_vars

(***************************************************************************)
(* Image files an application opens.  A layout lists the track records of  *)
(* a file in file order: cylinder, head, number of sectors and the kind of *)
(* sector records.  imdf_open takes the records in whatever order the file *)
(* has them (libimdf.c:369-407).                                           *)
(***************************************************************************)
ImageFlags(kind, n) ==
    [i \in 1..n |-> IF kind = "cu" THEN (IF i % 2 = 1 THEN IMD_SDR_COMPRESSED
                                          ELSE IMD_SDR_UNAVAILABLE)
                    ELSE IF kind = "mix" THEN ((3 * i) - 2) % 9
                    ELSE IMD_SDR_UNAVAILABLE]

ImageTrackRecord(cyl, head, n, kind) ==
    LET head_byte == head + (IF kind = "mix" THEN IMD_HFLAG_CMAP_PRES ELSE 0)
    IN  <<IMD_MODE_MFM_250, cyl, head_byte, n, 0>>
        \o [i \in 1..n |-> i]
        \o (IF kind = "mix" THEN [i \in 1..n |-> cyl] ELSE << >>)
        \o InputSectorRecords(ImageFlags(kind, n), "SN", SECTOR_SIZE_LOOKUP[1], 1)

ImageLayouts ==
    {<< <<0, 0, MaxImgSectors, "cu">>, <<1, 0, MaxImgSectors, "mix">> >>,
     << <<1, 0, 1, "mix">>, <<0, 0, MaxImgSectors, "cu">> >>,
     << <<0, 1, 1, "mix">>, <<0, 1, 1, "un">> >>,
     << >>}

RECURSIVE ImageTrackRecords(_, _)
ImageTrackRecords(layout, i) ==
    IF i > Len(layout) THEN << >>
    ELSE ImageTrackRecord(layout[i][1], layout[i][2], layout[i][3], layout[i][4])
         \o ImageTrackRecords(layout, i + 1)

ImageComment == <<72, 105, 13, 10>>

ImageFiles ==
    {[version |-> "1.18", stamp |-> 0,
      body |-> imd_write_comment_block(ImageComment) \o ImageTrackRecords(l, 1)] :
        l \in ImageLayouts}

\* what the stream calls of rewrite_image_file do: all succeed, fseek fails,
\* or ftruncate fails
IoOutcomes == {"ok", "seek_fail", "trunc_fail"}

\* the clock read when the header is rewritten
Now == 1

\* the buffers passed to imdf_write_sector: uniform, not uniform, too short
SectorBuffers ==
    {Fill(51, SECTOR_SIZE_LOOKUP[1]),
     [k \in 1..SECTOR_SIZE_LOOKUP[1] |-> IF k = 1 THEN 52 ELSE 51],
     Fill(51, SECTOR_SIZE_LOOKUP[1] - 1)}

GeometryArgs == {<<0, 0, 1>>, <<255, 255, 255>>}

\* the arguments of imdf_write_track after cyl and head: num_sectors,
\* sector_size, fill_byte, smap, cmap, hmap.  The six kinds of call (no map
\* passed; smap and hmap passed; no sector; a size not in the table; cmap
\* without smap; all maps passed) are spread over the (cyl, head) pairs.
WriteTrackKinds ==
    LET n == MaxImgSectors
        size == SECTOR_SIZE_LOOKUP[1]
        rev == [i \in 1..n |-> n + 1 - i]
    IN  << <<n, size, LIBIMD_FILL_BYTE_DEFAULT, << >>, << >>, << >> >>,
           <<n, size, 7, rev, << >>, Fill(1, n)>>,
           <<0, size, 0, << >>, << >>, << >> >>,
           <<n, size - 1, 0, << >>, << >>, << >> >>,
           <<n, size, 0, << >>, Fill(9, n), << >> >>,
           <<n, size, 0, rev, Fill(9, n), Fill(1, n)>> >>

WriteTrackArgs(cyl, head) ==
    WriteTrackKinds[((cyl + 2 * head) % Len(WriteTrackKinds)) + 1]


(***************************************************************************)
(* The stream specification: a caller reads track records one after the    *)
(* other from a byte stream with any of imd_load_track,                    *)
(* imd_read_track_header and imd_read_track_header_and_flags, until one    *)
(* of them does not return 1.  The streams are well-formed and malformed   *)
(* records, whole or cut short, alone or after a well-formed record.       *)
(***************************************************************************)
\* record type bytes: unavailable, normal, compressed, the last valid one,
\* and two that are not record types
StreamFlags == {0, 1, 2, 8, 9, 10}

\* mode, head byte and size code: well-formed (head 0; head 1 with CMAP and
\* HMAP), mode 6, head 2, size code 7
StreamHeaders == {<<5, 0, 0>>, <<0, 193, 0>>, <<6, 0, 0>>, <<5, 2, 0>>, <<5, 0, 7>>}

StreamRecord(h, flags) ==
    LET n == Len(flags)
    IN  <<h[1], 3, h[2], n, h[3]>>
        \o [i \in 1..n |-> i]
        \o (IF Bit(h[2], 7) = 1 THEN Fill(3, n) ELSE << >>)
        \o (IF Bit(h[2], 6) = 1 THEN Fill(h[2] % 16, n) ELSE << >>)
        \o InputSectorRecords(flags, "SN", SECTOR_SIZE_LOOKUP[1], 1)

StreamRecords ==
    {StreamRecord(h, flags) :
        h \in StreamHeaders,
        flags \in UNION {[1..n -> StreamFlags] : n \in 0..MaxStreamSectors}}

\* a well-formed record of one compressed sector that may come first
LeadRecord == <<5, 2, 1, 1, 0, 1, 2, 229>>

\* rec without its last cut bytes
CutShort(rec, cut) == SubSeq(rec, 1, IF cut <= Len(rec) THEN Len(rec) - cut ELSE 0)

StreamInputs ==
    {lead \o CutShort(rec, cut) :
        lead \in {<< >>, LeadRecord}, rec \in StreamRecords, cut \in 0..MaxCut}

SeekOutcomes == {"seek", "clamp", "read"}

StreamInit ==
    /\ fimd \in StreamInputs
    /\ fpos = 0
    /\ track = ZeroTrack
    /\ opts = default_libimdf_write_opts
    /\ fout = << >>
    /\ wres = NoResult
    /\ pc = "stream"
    /\ imdf = NoImage
    /\ file = NoFile
    /\ call = NoCall
    /\ ncalls = 0
    /\ chk = NoCheck

\* the caller's state after the read op, started at fpos on a stream that
\* seeks as seek says, returned r
StreamRead(op, seek, r) ==
    /\ track' = r.track
    /\ fpos' = r.pos
    /\ wres' = [NoResult EXCEPT !.op = op, !.ret = r.ret, !.start = fpos,
                                !.seek = seek]
    /\ pc' = IF r.ret = 1 THEN "stream" ELSE "end"

StreamLoadTrack ==
    /\ pc = "stream"
    /\ StreamRead("load_track", "none",
                  imd_load_track(fimd, fpos, LIBIMD_FILL_BYTE_DEFAULT))
    /\ UNCHANGED <<fimd, opts, fout>>
    /\ UNCHANGED <<ivars, chk>>

StreamReadTrackHeader ==
    /\ pc = "stream"
    /\ \E seek \in SeekOutcomes :
          StreamRead("read_track_header", seek,
                     imd_read_track_header(fimd, fpos, seek))
    /\ UNCHANGED <<fimd, opts, fout>>
    /\ UNCHANGED <<ivars, chk>>

StreamReadTrackHeaderAndFlags ==
    /\ pc = "stream"
    /\ \E seek \in SeekOutcomes :
          StreamRead("read_track_header_and_flags", seek,
                     imd_read_track_header_and_flags(fimd, fpos, seek))
    /\ UNCHANGED <<fimd, opts, fout>>
    /\ UNCHANGED <<ivars, chk>>

StreamNext ==
    \/ StreamLoadTrack
    \/ StreamReadTrackHeader
    \/ StreamReadTrackHeaderAndFlags

SpecStream == StreamInit /\ [][StreamNext]_vars

(***************************************************************************)
(* The check specification: imdchk_check_file scans a file of up to        *)
(* MaxChkTracks track records under the caller's options.  fimd holds the  *)
(* bytes that follow the comment block; one step reads the file header and *)
(* the comment, one step is one pass through the track loop, and one step  *)
(* is the return after the loop.                                           *)
(***************************************************************************)
CheckCyls == {0, 1}

\* the sector maps and record types of the tracks: a duplicate ID; an
\* unavailable and a compressed deleted sector with a data error; the
\* record types 0x09 and 0x0A
CheckSectors ==
    {<<<<1, 1>>, <<2, 2>>>>, <<<<1, 2>>, <<0, 8>>>>, <<<<1>>, <<9>>>>, <<<<1>>, <<10>>>>}

CheckSectorRecord(flag) == IF IMD_SDR_HAS_DATA(flag) \/ flag = 10 THEN <<flag, 229>> ELSE <<flag>>

RECURSIVE CheckSectorRecords(_)
CheckSectorRecords(flags) ==
    IF flags = << >> THEN << >>
    ELSE CheckSectorRecord(Head(flags)) \o CheckSectorRecords(Tail(flags))

\* whole records, and records that end within the header
CheckRecords ==
    {<<IMD_MODE_MFM_250, cyl, head, Len(s[1]), 0>> \o s[1] \o CheckSectorRecords(s[2]) :
        cyl \in CheckCyls, head \in {0, 1}, s \in CheckSectors}
    \cup {<<IMD_MODE_MFM_250, cyl, head>> : cyl \in CheckCyls, head \in {0, 1}}

RECURSIVE CheckFilesOf(_)
CheckFilesOf(n) ==
    IF n = 0 THEN {<< >>}
    ELSE {rec \o rest : rec \in CheckRecords, rest \in CheckFilesOf(n - 1)}

CheckFiles == UNION {CheckFilesOf(n) : n \in 0..MaxChkTracks}

CheckOptions ==
    [error_mask : {DEFAULT_ERROR_MASK, 0,
                   DEFAULT_ERROR_MASK + CHECK_BIT_SEQ_CYL_DEC + CHECK_BIT_SEQ_HEAD_ORDER},
     max_allowed_cyl : {-1, 0}, required_head : {-1}, max_allowed_sectors : {-1}]

CheckInit ==
    /\ fimd \in CheckFiles
    /\ fpos = 0
    /\ track = ZeroTrack
    /\ opts = default_libimdf_write_opts
    /\ fout = << >>
    /\ wres = NoResult
    /\ pc = "check_open"
    /\ imdf = NoImage
    /\ file = NoFile
    /\ call = NoCall
    /\ ncalls = 0
    /\ \E o \in CheckOptions, seekable \in BOOLEAN :
          chk = [NoCheck EXCEPT !.options = o, !.seekable = seekable]

\* libimdchk.c:136-160; a comment block without its end marker is read up
\* to the end of the file
CheckOpen ==
    /\ pc = "check_open"
    /\ \E header \in {0, IMD_ERR_READ_ERROR}, comment \in {0, IMD_ERR_READ_ERROR} :
          /\ chk' = check_preamble(chk, header, comment)
          /\ fpos' = IF comment # 0 THEN Len(fimd) ELSE fpos
    /\ pc' = chk'.at
    /\ UNCHANGED <<fimd, track, opts, fout, wres>>
    /\ UNCHANGED ivars

\* libimdchk.c:163-230, one pass through the loop: r is what
\* imd_read_track_header_and_flags returned and c the scan after the pass
CheckTrack ==
    /\ pc = "check_loop"
    /\ IF chk.seekable
       THEN \E seek \in SeekOutcomes :
               \E r \in {imd_read_track_header_and_flags(fimd, fpos, seek)} :
                  \E c \in {check_track_read(chk, r)} :
                     /\ chk' = c
                     /\ track' = r.track
                     /\ fpos' = r.pos
                     /\ pc' = c.at
       ELSE \E c \in {check_ftell_failed(chk)} :
               /\ chk' = c
               /\ pc' = c.at
               /\ UNCHANGED <<track, fpos>>
    /\ UNCHANGED <<fimd, opts, fout, wres>>
    /\ UNCHANGED ivars

\* libimdchk.c:232-241
CheckReturn ==
    /\ pc = "check_end"
    /\ chk' = check_finish(chk)
    /\ pc' = chk'.at
    /\ UNCHANGED <<fimd, fpos, track, opts, fout, wres>>
    /\ UNCHANGED ivars

CheckNext == CheckOpen \/ CheckTrack \/ CheckReturn

SpecCheck == CheckInit /\ [][CheckNext]_vars

\* the scan of the files of at most one track record
CheckFairInit == CheckInit /\ fimd \in CheckFilesOf(0) \cup CheckFilesOf(1)

\* the scheduling of imdchk_check_file: a function that is running goes on
\* running, so a step that can change its state is taken
SpecCheckFair == CheckFairInit /\ [][CheckNext]_vars /\ WF_vars(CheckNext)
(***************************************************************************)
(* The image specification: an application opens an image file, read-only  *)
(* or not, and makes up to MaxCalls calls on the handle.                   *)
(***************************************************************************)
\* the handle and the file once imdf_open(f, ..) returned r
Opened(f, r) ==
    /\ file = f
    /\ imdf = r.imdf
    /\ call = [NoCall EXCEPT !.op = "open", !.ret = r.ret]

\* the handle, the file and the call record once imdf_write_sector
\* returned r
ReturnedSector(r) ==
    /\ imdf' = r.imdf
    /\ file' = r.file
    /\ call' = [NoCall EXCEPT !.op = "write_sector", !.ret = r.ret,
                               !.target = r.target,
                               !.before = IF r.target = << >> THEN << >>
                                          ELSE imdf.tracks[r.target[1] + 1].sflag]

\* the handle, the file and the call record once imdf_write_track, called
\* for (cyl, head), returned r
ReturnedTrack(cyl, head, r) ==
    /\ imdf' = r.imdf
    /\ file' = r.file
    /\ call' = [NoCall EXCEPT !.op = "write_track", !.ret = r.ret,
                               !.target = r.target, !.args = <<cyl, head>>]

Init ==
    /\ fimd = << >>
    /\ fpos = 0
    /\ track = ZeroTrack
    /\ opts = default_libimdf_write_opts
    /\ fout = << >>
    /\ wres = NoResult
    /\ pc = "image"
    /\ \E f \in ImageFiles, read_only \in BOOLEAN :
          Opened(f, imdf_open(f, read_only))
    /\ ncalls = 0
    /\ chk = NoCheck

SetWriteProtect ==
    /\ imdf.open /\ pc = "image" /\ ncalls < MaxCalls
    /\ \E protect \in BOOLEAN :
          LET r == imdf_set_write_protect(imdf, protect)
          IN  /\ imdf' = r.imdf
              /\ call' = [NoCall EXCEPT !.op = "set_write_protect", !.ret = r.ret,
                                         !.protect = protect]
    /\ ncalls' = ncalls + 1
    /\ UNCHANGED file
    /\ UNCHANGED <<cvars, chk>>

SetGeometry ==
    /\ imdf.open /\ pc = "image" /\ ncalls < MaxCalls
    /\ \E g \in GeometryArgs :
          LET r == imdf_set_geometry(imdf, g[1], g[2], g[3])
          IN  /\ imdf' = r.imdf
              /\ call' = [NoCall EXCEPT !.op = "set_geometry", !.ret = r.ret]
    /\ ncalls' = ncalls + 1
    /\ UNCHANGED file
    /\ UNCHANGED <<cvars, chk>>

WriteSector ==
    /\ imdf.open /\ pc = "image" /\ ncalls < MaxCalls
    /\ \E cyl \in 0..MaxCyl, head \in 0..1, id \in 1..MaxImgSectors,
          buffer \in SectorBuffers, io \in IoOutcomes :
          ReturnedSector(
              imdf_write_sector(imdf, file, cyl, head, id, buffer, Now, io))
    /\ ncalls' = ncalls + 1
    /\ UNCHANGED <<cvars, chk>>

WriteTrack ==
    /\ imdf.open /\ pc = "image" /\ ncalls < MaxCalls
    /\ \E cyl \in 0..MaxCyl, head \in 0..MaxHead, io \in IoOutcomes :
          LET a == WriteTrackArgs(cyl, head)
          IN  ReturnedTrack(cyl, head,
                  imdf_write_track(imdf, file, cyl, head, a[1], a[2], a[3],
                                   a[4], a[5], a[6], Now, io))
    /\ ncalls' = ncalls + 1
    /\ UNCHANGED <<cvars, chk>>

Next ==
    \/ SetWriteProtect
    \/ SetGeometry
    \/ WriteSector
    \/ WriteTrack

Spec == Init /\ [][Next]_vars

(***************************************************************************)
(* The reading specification: on an opened image the caller sets geometry  *)
(* limits and reads sectors.  A read is not counted in ncalls: it leaves   *)
(* the handle and the file as they are.                                    *)
(***************************************************************************)
\* the caller's buffers: of one sector, one byte short, two bytes longer
ReadBuffers ==
    {Fill(238, SECTOR_SIZE_LOOKUP[1]), Fill(238, SECTOR_SIZE_LOOKUP[1] - 1),
     Fill(238, SECTOR_SIZE_LOOKUP[1] + 2)}

ReadSector ==
    /\ imdf.open /\ pc = "image"
    /\ \E cyl \in 0..MaxCyl, head \in 0..1, id \in 1..MaxImgSectors,
          buffer \in ReadBuffers :
          LET r == imdf_read_sector(imdf, cyl, head, id, buffer)
          IN  /\ imdf' = r.imdf
              /\ call' = [NoCall EXCEPT !.op = "read_sector", !.ret = r.ret,
                                         !.args = <<cyl, head, id, buffer>>,
                                         !.buffer = r.buffer]
    /\ UNCHANGED <<file, ncalls>>
    /\ UNCHANGED <<cvars, chk>>

ReadNext ==
    \/ SetGeometry
    \/ ReadSector

SpecRead == Init /\ [][ReadNext]_vars

(***************************************************************************)
(* The round-trip specification: a well-formed image file is opened and    *)
(* then rewritten from memory with no modified track, so that every track  *)
(* is written with default_libimdf_write_opts (libimdf.c:172-179).  fimd   *)
(* keeps the body the file had before.                                     *)
(***************************************************************************)
RoundTripFiles ==
    {[version |-> "1.18", stamp |-> 0,
      body |-> imd_write_comment_block(c)
               \o InputTrackRecord(base, MaxSectors, 0, sk, ck)
               \o InputTrackRecord((base + 4) % 9, base % 2, 0, "asc", ck)] :
        c \in {<< >>, ImageComment}, base \in 0..8,
        sk \in SmapKinds, ck \in ContentKinds}

RoundTripInit ==
    /\ file \in RoundTripFiles
    /\ fimd = file.body
    /\ fpos = 0
    /\ track = ZeroTrack
    /\ opts = default_libimdf_write_opts
    /\ fout = << >>
    /\ wres = NoResult
    /\ pc = "round_trip"
    /\ imdf = NoImage
    /\ call = NoCall
    /\ ncalls = 0
    /\ chk = NoCheck

\* the handle once imdf_open returned r
Reopened(r) ==
    /\ imdf' = r.imdf
    /\ call' = [NoCall EXCEPT !.op = "open", !.ret = r.ret]

\* the file once rewrite_image_file returned r
Rewritten(r) ==
    /\ file' = r.file
    /\ call' = [NoCall EXCEPT !.op = "rewrite", !.ret = r.ret]

Open ==
    /\ pc = "round_trip" /\ call.op = "none"
    /\ \E read_only \in BOOLEAN :
          Reopened(imdf_open(file, read_only))
    /\ ncalls' = ncalls + 1
    /\ UNCHANGED file
    /\ UNCHANGED <<cvars, chk>>

Rewrite ==
    /\ pc = "round_trip" /\ call.op = "open" /\ call.ret = IMDF_ERR_OK
    /\ \E io \in IoOutcomes :
          Rewritten(rewrite_image_file(imdf, file, Len(imdf.tracks),
                                       default_libimdf_write_opts, Now, io))
    /\ ncalls' = ncalls + 1
    /\ UNCHANGED imdf
    /\ UNCHANGED <<cvars, chk>>

RoundTripNext ==
    \/ Open
    \/ Rewrite

SpecRoundTrip == RoundTripInit /\ [][RoundTripNext]_vars

(***************************************************************************)
(* Properties of the image handle.                                         *)
(***************************************************************************)
AllEqual(d) == \A k \in 1..Len(d) : d[k] = d[1]

WriteCalls == {"write_sector", "write_track"}

\* C1: a write call on a write-protected handle returns
\* IMDF_ERR_WRITE_PROTECTED, changes no track of the handle (maps, sflags,
\* data) and no byte of the file.
C1_WriteProtectedNoEffect ==
    [][(imdf.open /\ imdf.write_protected /\ call'.op \in WriteCalls)
          => /\ call'.ret = IMDF_ERR_WRITE_PROTECTED
             /\ imdf'.tracks = imdf.tracks
             /\ file' = file]_vars

C1_Witness ==
    /\ pc = "image"
    /\ ~imdf.read_only_open
    /\ imdf.write_protected
    /\ call.op = "write_sector"
    /\ call.ret = IMDF_ERR_WRITE_PROTECTED
    /\ Len(imdf.tracks) = 2

\* C2: a handle opened read-only is write-protected in every state; on it
\* imdf_set_write_protect(true) returns IMDF_ERR_OK and
\* imdf_set_write_protect(false) returns IMDF_ERR_WRITE_PROTECTED; and no call
\* on it changes a track or the file.
C2_ReadOnlyStaysProtected ==
    /\ [](imdf.read_only_open => imdf.write_protected)
    /\ [][imdf.read_only_open
             => /\ imdf'.read_only_open
                /\ imdf'.tracks = imdf.tracks
                /\ file' = file
                /\ call'.op = "set_write_protect"
                      => call'.ret = IF call'.protect THEN IMDF_ERR_OK
                                     ELSE IMDF_ERR_WRITE_PROTECTED]_vars

C2_Witness ==
    /\ pc = "image"
    /\ imdf.read_only_open
    /\ imdf.write_protected
    /\ call.op = "set_write_protect"
    /\ ~call.protect
    /\ call.ret = IMDF_ERR_WRITE_PROTECTED
    /\ ncalls = 2
    /\ Len(imdf.tracks) = 2

TrackBefore(a, b) == a.cyl < b.cyl \/ (a.cyl = b.cyl /\ a.head < b.head)

\* C3 as claimed: after a successful imdf_write_track the track list of the
\* handle is strictly ascending by (cylinder, head).
C3_SortedAfterWriteTrack ==
    (pc = "image" /\ call.op = "write_track" /\ call.ret = IMDF_ERR_OK)
        => \A i \in 1..(Len(imdf.tracks) - 1) :
              TrackBefore(imdf.tracks[i], imdf.tracks[i + 1])

\* C4: opening a well-formed image file and rewriting every track with the
\* default write options leaves the comment and the track records of the
\* file byte for byte as they were.
C4_RoundTrip ==
    (pc = "round_trip" /\ call.op = "rewrite" /\ call.ret = IMDF_ERR_OK)
        => file.body = fimd

C4_Witness ==
    /\ pc = "round_trip"
    /\ call.op = "rewrite"
    /\ call.ret = IMDF_ERR_OK
    /\ file.stamp = Now
    /\ file.body = fimd
    /\ Len(imdf.tracks) = 2
    /\ imdf.tracks[1].num_sectors >= 3
    /\ Bit(imdf.tracks[1].hflag, 4) = 1
    /\ \E i, j, k \in 1..imdf.tracks[1].num_sectors :
          /\ imdf.tracks[1].sflag[i] = IMD_SDR_UNAVAILABLE
          /\ imdf.tracks[1].sflag[j] \in {2, 4, 6, 8}
          /\ imdf.tracks[1].sflag[k] \in {1, 3, 5, 7}
          /\ AllEqual(SectorData(imdf.tracks[1], k - 1))

\* C6 as claimed: a successful imdf_write_sector leaves every sector with
\* sflag 0x00 other than the one written with sflag 0x00 in memory and with
\* record type 0x00 in the file.
C6_UnavailableUntouched ==
    [][(pc = "image" /\ call'.op = "write_sector" /\ call'.ret = IMDF_ERR_OK)
          => LET o == imdf_open(file', FALSE)
             IN  \A ti \in 1..Len(imdf.tracks) :
                    \A si \in 1..imdf.tracks[ti].num_sectors :
                       (/\ imdf.tracks[ti].sflag[si] = IMD_SDR_UNAVAILABLE
                        /\ <<ti - 1, si - 1>> # call'.target)
                       => /\ imdf'.tracks[ti].sflag[si] = IMD_SDR_UNAVAILABLE
                          /\ (o.ret = IMDF_ERR_OK /\ Len(o.imdf.tracks) >= ti)
                                => o.imdf.tracks[ti].sflag[si]
                                       = IMD_SDR_UNAVAILABLE]_vars

(***************************************************************************)
(* Properties of the codec.                                                *)
(***************************************************************************)
Written == pc = "done" /\ wres.op = "write_track_imd" /\ wres.ret = 0

Interleaved == pc = "done" /\ wres.op = "apply_interleave" /\ wres.ret = 0

\* the track record in fout, read back
ReadBack == imd_load_track(fout, 0, LIBIMD_FILL_BYTE_DEFAULT)

C7_PolicyTable ==
    Written =>
        \A p \in 1..wres.track.num_sectors :
            LET f == wres.track.sflag[p]
                uniform == AllEqual(SectorData(wres.track, p - 1))
                compressed ==
                    \/ opts.compression_mode = IMD_COMPRESSION_FORCE_COMPRESS /\ uniform
                    \/ /\ opts.compression_mode = IMD_COMPRESSION_AS_READ
                       /\ f \in {2, 4, 6, 8}
                       /\ uniform
                dam == f \in {3, 4, 7, 8} /\ ~opts.force_non_deleted
                err == f \in {5, 6, 7, 8} /\ ~opts.force_non_bad
                column == IF dam /\ err THEN 4 ELSE IF err THEN 3
                          ELSE IF dam THEN 2 ELSE 1
                expected == IF compressed THEN <<2, 4, 6, 8>>[column]
                            ELSE <<1, 3, 5, 7>>[column]
            IN  f \in 1..8 => ReadBack.track.sflag[p] = expected

C7_Witness ==
    /\ Written
    /\ opts.compression_mode = IMD_COMPRESSION_AS_READ
    /\ opts.force_non_bad
    /\ ~opts.force_non_deleted
    /\ \E p \in 1..track.num_sectors :
          /\ wres.track.sflag[p] = IMD_SDR_COMPRESSED_DEL_ERR
          /\ ~AllEqual(SectorData(wres.track, p - 1))
          /\ ReadBack.track.sflag[p] = IMD_SDR_NORMAL_DAM
    /\ \E p \in 1..track.num_sectors :
          /\ wres.track.sflag[p] = IMD_SDR_NORMAL_DAM
          /\ AllEqual(SectorData(wres.track, p - 1))
          /\ ReadBack.track.sflag[p] = IMD_SDR_NORMAL_DAM

\* C8 as claimed: writing with force-compress emits an even, nonzero record
\* type for sector i if and only if the bytes of sector i are all equal.
C8_Original ==
    (Written /\ opts.compression_mode = IMD_COMPRESSION_FORCE_COMPRESS) =>
        \A p \in 1..wres.track.num_sectors :
            IMD_SDR_IS_COMPRESSED(ReadBack.track.sflag[p])
                <=> AllEqual(SectorData(wres.track, p - 1))

\* C8 amended: writing with force-compress emits an even, nonzero record type
\* for sector i if and only if the sflag of sector i is not 0x00 and the bytes
\* of sector i are all equal.
C8_Uniformity ==
    (Written /\ opts.compression_mode = IMD_COMPRESSION_FORCE_COMPRESS) =>
        \A p \in 1..wres.track.num_sectors :
            (ReadBack.track.sflag[p] \in {2, 4, 6, 8})
                <=> /\ wres.track.sflag[p] # IMD_SDR_UNAVAILABLE
                    /\ AllEqual(SectorData(wres.track, p - 1))

C8_Witness ==
    /\ Written
    /\ opts.compression_mode = IMD_COMPRESSION_FORCE_COMPRESS
    /\ \E p, q, r \in 1..track.num_sectors :
          /\ wres.track.sflag[p] = IMD_SDR_UNAVAILABLE
          /\ wres.track.sflag[q] \in {1, 3, 5, 7}
          /\ AllEqual(SectorData(wres.track, q - 1))
          /\ ReadBack.track.sflag[q] \in {2, 4, 6, 8}
          /\ wres.track.sflag[r] # IMD_SDR_UNAVAILABLE
          /\ ~AllEqual(SectorData(wres.track, r - 1))
          /\ ReadBack.track.sflag[r] \in {1, 3, 5, 7}

StrictlyAscending(m) == \A i \in 1..(Len(m) - 1) : m[i] < m[i + 1]

SectorTuple(t, p) ==
    <<t.smap[p + 1], t.cmap[p + 1], t.hmap[p + 1], t.sflag[p + 1], SectorData(t, p)>>

\* C10: after a successful imd_apply_interleave every physical position holds
\* the smap, cmap, hmap, sflag and data bytes of one single original position.
C10_InterleaveCoherence ==
    Interleaved =>
        /\ wres.track.num_sectors = track.num_sectors
        /\ Len(wres.track.data) = Len(track.data)
        /\ \A p \in 0..(track.num_sectors - 1) :
              \E q \in 0..(track.num_sectors - 1) :
                  SectorTuple(wres.track, p) = SectorTuple(track, q)

C10_Witness ==
    /\ Interleaved
    /\ wres.factor = 2
    /\ track.num_sectors = 3
    /\ wres.track.smap # track.smap
    /\ wres.track.data # track.data
    /\ Bit(track.hflag, 7) = 1


(***************************************************************************)
(* Properties of interleave detection.                                     *)
(***************************************************************************)
DistinctIds(m) == \A i, j \in 1..Len(m) : m[i] = m[j] => i = j

\* the forward distance found most often between an ID and the next higher
\* one (the lowest after the highest), the smallest such distance on a tie
MostFrequentDistance(m) ==
    LET n == Len(m)
        ids == {m[i] : i \in 1..n}
        pos(id) == CHOOSE p \in 1..n : m[p] = id
        succ(id) == IF \A j \in ids : j <= id
                    THEN CHOOSE j \in ids : \A k \in ids : j <= k
                    ELSE CHOOSE j \in ids : j > id /\ \A k \in ids : k > id => j <= k
        tally(d) == Cardinality({id \in ids : (pos(succ(id)) - pos(id)) % n = d})
    IN  CHOOSE d \in 1..(n - 1) :
            \A e \in 1..(n - 1) :
                tally(e) < tally(d) \/ (tally(e) = tally(d) /\ d <= e)

\* C11: on a sector map of distinct IDs imd_calculate_best_interleave returns
\* 1 for fewer than two sectors and otherwise the most frequent forward
\* distance between consecutive IDs, the smallest one on a tie; the example
\* map <<1,5,2,6,3,7,4,8>> gives 2 and <<1,..,8>> gives 1.
C11_BestInterleave ==
    (pc = "done" /\ wres.op = "best_interleave" /\ DistinctIds(track.smap)) =>
        /\ track.num_sectors < 2 => wres.ret = 1
        /\ track.num_sectors >= 2 =>
              /\ wres.ret \in 1..(track.num_sectors - 1)
              /\ wres.ret = MostFrequentDistance(track.smap)
        /\ track.smap = <<1, 5, 2, 6, 3, 7, 4, 8>> => wres.ret = 2
        /\ track.smap = <<1, 2, 3, 4, 5, 6, 7, 8>> => wres.ret = 1

\* a map on which the distances 1 and 2 are both found twice
C11_Witness ==
    /\ pc = "done" /\ wres.op = "best_interleave"
    /\ track.smap = <<1, 2, 3, 5, 4>>
    /\ wres.ret = 1


(***************************************************************************)
(* Properties of the record type predicates.                               *)
(***************************************************************************)
\* C12: every record type 0x00..0x08 of a loaded track is classified as the
\* taxonomy says: data for 0x01..0x08, compressed for the even types above
\* 0x00, DAM for 0x03, 0x04, 0x07, 0x08 and ERR for 0x05..0x08, so that 0x00
\* has neither DAM nor ERR.
C12_Taxonomy ==
    pc \in {"loaded", "edited", "done"} =>
        \A i \in 1..track.num_sectors :
            LET type == track.sflag[i]
            IN  /\ type \in 0..8
                /\ IMD_SDR_HAS_DATA(type) <=> type \in 1..8
                /\ IMD_SDR_IS_COMPRESSED(type) <=> type \in {2, 4, 6, 8}
                /\ IMD_SDR_HAS_DAM(type) <=> type \in {3, 4, 7, 8}
                /\ IMD_SDR_HAS_ERR(type) <=> type \in {5, 6, 7, 8}


(***************************************************************************)
(* Properties of imdf_read_sector                                          *)
(***************************************************************************)
\* the smallest member of a nonempty set of numbers
Least(S) == CHOOSE x \in S : \A y \in S : x <= y

\* the positions of the tracks of h at (cyl, head)
TracksAt(h, cyl, head) ==
    {k \in 1..Len(h.tracks) : h.tracks[k].cyl = cyl /\ h.tracks[k].head = head}

\* the physical positions of track t whose smap entry is id
SectorsWith(t, id) == {i \in 1..t.num_sectors : t.smap[i] = id}

\* (cyl, head, id) breaks a geometry limit that is set on h
BreaksLimit(h, cyl, head, id) ==
    \/ h.max_cyl # 255 /\ cyl > h.max_cyl
    \/ h.max_head # 255 /\ head > h.max_head
    \/ h.max_spt # 255 /\ id > h.max_spt /\ id # 0

\* the result the claim gives for reading sector id of track t into buffer
\* buf, which came back as out
ReadOfTrack(t, id, buf, out, ret) ==
    IF SectorsWith(t, id) = {} THEN ret = IMDF_ERR_NOT_FOUND /\ out = buf
    ELSE LET i == Least(SectorsWith(t, id))
         IN  IF t.sflag[i] = IMD_SDR_UNAVAILABLE
             THEN ret = IMDF_ERR_UNAVAILABLE /\ out = buf
             ELSE IF Len(buf) < t.sector_size
             THEN ret = IMDF_ERR_BUFFER_SIZE /\ out = buf
             ELSE /\ ret = IMDF_ERR_OK
                  /\ Len(out) = Len(buf)
                  /\ \A k \in 1..Len(buf) :
                        out[k] = IF k <= t.sector_size
                                 THEN t.data[(i - 1) * t.sector_size + k]
                                 ELSE buf[k]

\* the result the claim gives for a read of (cyl, head, id) on h
ReadOfImage(h, cyl, head, id, buf, out, ret) ==
    IF TracksAt(h, cyl, head) = {} THEN ret = IMDF_ERR_NOT_FOUND /\ out = buf
    ELSE ReadOfTrack(h.tracks[Least(TracksAt(h, cyl, head))], id, buf, out, ret)

\* C13 as stated: imdf_read_sector leaves the image and the file alone and
\* returns NotFound when no track or no sector matches, Unavailable for an
\* sflag of 0x00 (before the buffer is measured), BufferSize for a short
\* buffer, and otherwise OK with the sector's bytes in the buffer.
C13_Original ==
    [][call'.op = "read_sector" =>
          /\ imdf' = imdf /\ file' = file
          /\ ReadOfImage(imdf, call'.args[1], call'.args[2], call'.args[3],
                         call'.args[4], call'.buffer, call'.ret)]_vars

\* C13: imdf_read_sector leaves the image and the file alone; a request
\* beyond a geometry limit that is set fails with Geometry and an untouched
\* buffer, and any other request returns NotFound when no track or no sector
\* matches, Unavailable for an sflag of 0x00 (before the buffer is
\* measured), BufferSize for a short buffer, and otherwise OK with the
\* sector's bytes in the buffer.
C13_ReadSector ==
    [][call'.op = "read_sector" =>
          /\ imdf' = imdf /\ file' = file
          /\ IF BreaksLimit(imdf, call'.args[1], call'.args[2], call'.args[3])
             THEN call'.ret = IMDF_ERR_GEOMETRY /\ call'.buffer = call'.args[4]
             ELSE ReadOfImage(imdf, call'.args[1], call'.args[2], call'.args[3],
                              call'.args[4], call'.buffer, call'.ret)]_vars

\* an unavailable sector was asked for with a buffer shorter than a sector
C13_Witness ==
    /\ call.op = "read_sector"
    /\ call.ret = IMDF_ERR_UNAVAILABLE
    /\ Len(call.args[4]) < SECTOR_SIZE_LOOKUP[1]
    /\ \E k \in TracksAt(imdf, call.args[1], call.args[2]) :
          \E i \in SectorsWith(imdf.tracks[k], call.args[3]) :
             imdf.tracks[k].sflag[i] = IMD_SDR_UNAVAILABLE


(***************************************************************************)
(* Properties of imdf_write_sector's in-memory sflags and of its rewrite   *)
(***************************************************************************)
\* the as-read policy: a sector read as normal stays normal, a sector read
\* as compressed stays compressed while its data is uniform and becomes
\* normal otherwise, DAM and ERR are kept, unavailable stays unavailable
AsReadPolicy(sflag, d) ==
    IF sflag \in {2, 4, 6, 8} /\ ~AllEqual(d) THEN sflag - 1 ELSE sflag

\* C14 as claimed: after a successful imdf_write_sector on the as-read path
\* (the sector was not compressed, or the new data is uniform) the edited
\* sector's in-memory sflag is the as-read policy result for its original
\* sflag and its new data, and no other sflag of the image changes.
C14_AsReadSflag ==
    [][(pc = "image" /\ call'.op = "write_sector" /\ call'.ret = IMDF_ERR_OK)
          => LET ti == call'.target[1] + 1
                 si == call'.target[2] + 1
                 orig == imdf.tracks[ti].sflag[si]
                 d == SectorData(imdf'.tracks[ti], si - 1)
             IN  (orig \notin {2, 4, 6, 8} \/ AllEqual(d))
                 => /\ imdf'.tracks[ti].sflag[si] = AsReadPolicy(orig, d)
                    /\ \A tj \in 1..Len(imdf.tracks) :
                          \A sj \in 1..imdf.tracks[tj].num_sectors :
                             <<tj, sj>> # <<ti, si>>
                             => imdf'.tracks[tj].sflag[sj]
                                    = imdf.tracks[tj].sflag[sj]]_vars


\* the normal record type with the DAM and ERR bits of a data-bearing
\* sflag; an unavailable sector stays unavailable
NormalOf(sflag) == IF sflag \in {2, 4, 6, 8} THEN sflag - 1 ELSE sflag

\* a successful imdf_write_sector put non-uniform data in a sector whose
\* sflag was compressed
ForcedUncompressed ==
    /\ pc = "image" /\ call.op = "write_sector" /\ call.ret = IMDF_ERR_OK
    /\ call.before[call.target[2] + 1] \in {2, 4, 6, 8}
    /\ ~AllEqual(SectorData(imdf.tracks[call.target[1] + 1], call.target[2]))

\* the concatenation of a sequence of byte sequences
RECURSIVE Concat(_)
Concat(ss) == IF ss = << >> THEN << >> ELSE Head(ss) \o Concat(Tail(ss))

\* a sector data record of the given type for the sector data d
RecordOfSector(type, d) ==
    IF type = 0 THEN <<0>>
    ELSE IF type \in {1, 3, 5, 7} THEN <<type>> \o d
    ELSE <<type, d[1]>>

\* the track record of t whose sector records have the given types
RecordOfTrack(t, types) ==
    <<t.mode, t.cyl, t.head + t.hflag, t.num_sectors, t.sector_size_code>>
    \o t.smap
    \o (IF t.hflag \div 128 = 1 THEN t.cmap ELSE << >>)
    \o (IF (t.hflag \div 64) % 2 = 1 THEN t.hmap ELSE << >>)
    \o Concat([s \in 1..t.num_sectors |->
                  RecordOfSector(types[s], SectorData(t, s - 1))])

\* the record types of track t written as read
TypesAsRead(t) ==
    [s \in 1..t.num_sectors |-> AsReadPolicy(t.sflag[s], SectorData(t, s - 1))]

\* the record types of a track that had the sflags before, written
\* uncompressed
TypesUncompressed(before) == [s \in 1..Len(before) |-> NormalOf(before[s])]

\* the bytes after the header line of a file that holds the tracks, track
\* ti uncompressed from the sflags before and every other track as read
BodyAfterEdit(comment, tracks, ti, before) ==
    comment \o <<26>>
    \o Concat([tj \in 1..Len(tracks) |->
                  RecordOfTrack(tracks[tj],
                      IF tj = ti THEN TypesUncompressed(before)
                      ELSE TypesAsRead(tracks[tj]))])

\* body starts with the bytes written
StartsWith(body, written) ==
    Len(body) >= Len(written) /\ SubSeq(body, 1, Len(written)) = written

\* C15: when imdf_write_sector puts non-uniform data in a sector whose sflag
\* was compressed, the rewrite emits every data-bearing sector of that
\* track as a normal (odd) record with that sector's own DAM/ERR bits and
\* its sector_size data bytes, and every other track as the as-read options
\* write it.
C15_TrackUncompressed ==
    ForcedUncompressed
    => StartsWith(file.body,
                  BodyAfterEdit(imdf.comment, imdf.tracks, call.target[1] + 1,
                                call.before))

\* the edited track had a second compressed sector and the image has a
\* second track with a compressed sector
C15_Witness ==
    /\ ForcedUncompressed
    /\ \E s \in 1..Len(call.before) :
          s # call.target[2] + 1 /\ call.before[s] \in {2, 4, 6, 8}
    /\ \E tj \in 1..Len(imdf.tracks) :
          /\ tj # call.target[1] + 1
          /\ \E s \in 1..imdf.tracks[tj].num_sectors :
                imdf.tracks[tj].sflag[s] \in {2, 4, 6, 8}


(***************************************************************************)
(* Properties of imdf_write_track                                          *)
(***************************************************************************)
\* imdf_write_track returned OK
WroteTrack == pc = "image" /\ call.op = "write_track" /\ call.ret = IMDF_ERR_OK

\* the track imdf_write_track worked on, and the arguments it was called
\* with after cyl and head
WrittenTrack == imdf.tracks[call.target[1] + 1]

WrittenArgs == WriteTrackArgs(call.args[1], call.args[2])

\* the tracks the file holds when the track at ti was written by
\* imdf_write_track and every other one as read
BodyAfterTrack(comment, tracks, ti) ==
    comment \o <<26>>
    \o Concat([tj \in 1..Len(tracks) |->
                  RecordOfTrack(tracks[tj],
                      IF tj = ti THEN Fill(2, tracks[tj].num_sectors)
                      ELSE TypesAsRead(tracks[tj]))])

\* C16: after a successful imdf_write_track(cyl, head, n, size, fill, smap,
\* cmap, hmap) with n > 0 the track at (cyl, head) has n sectors of fill
\* bytes, the caller's smap (1..n when none was passed), the CMAP/HMAP bits
\* of exactly the maps passed, every sflag 0x02, and the file holds for it a
\* record of 5 + n*(1 + [cmap] + [hmap]) + 2n bytes whose sector records
\* are 0x02 followed by fill.
C16_WrittenTrack ==
    (WroteTrack /\ WrittenArgs[1] > 0)
    => LET t == WrittenTrack
           n == WrittenArgs[1]
           c == IF WrittenArgs[5] # << >> THEN 1 ELSE 0
           h == IF WrittenArgs[6] # << >> THEN 1 ELSE 0
       IN  /\ t.cyl = call.args[1] /\ t.head = call.args[2]
           /\ t.num_sectors = n
           /\ t.data = Fill(WrittenArgs[3], n * WrittenArgs[2])
           /\ t.smap = IF WrittenArgs[4] # << >> THEN WrittenArgs[4]
                       ELSE [i \in 1..n |-> i]
           /\ t.hflag = 128 * c + 64 * h
           /\ t.sflag = Fill(2, n)
           /\ Len(RecordOfTrack(t, t.sflag)) = 5 + n * (1 + c + h) + 2 * n
           /\ SubSeq(RecordOfTrack(t, t.sflag), 5 + n * (1 + c + h) + 1,
                     5 + n * (1 + c + h) + 2 * n)
                 = Concat(Fill(<<2, WrittenArgs[3]>>, n))
           /\ StartsWith(file.body,
                         BodyAfterTrack(imdf.comment, imdf.tracks,
                                        call.target[1] + 1))

\* a track was written with a caller's smap and hmap and without cmap
C16_Witness ==
    /\ WroteTrack
    /\ WrittenArgs[1] > 0
    /\ WrittenArgs[4] # << >> /\ WrittenArgs[5] = << >> /\ WrittenArgs[6] # << >>
    /\ WrittenTrack.hflag = 64
    /\ Len(imdf.tracks) > 1


\* imdf_write_track is called on the handle h for (cyl, head) with an
\* argument beyond a geometry limit that is set
BeyondLimits(h, cyl, head) ==
    \/ h.max_cyl # 255 /\ cyl > h.max_cyl
    \/ h.max_head # 255 /\ head > h.max_head
    \/ h.max_spt # 255 /\ WriteTrackArgs(cyl, head)[1] > h.max_spt

\* C17 as claimed: imdf_write_track called on a writable image with cyl >
\* max_cyl, head > max_head or num_sectors > max_spt, for a limit that is
\* set, fails with IMDF_ERR_GEOMETRY and leaves the image and the file
\* unchanged.
C17_GeometryEnforced ==
    [][(/\ pc = "image" /\ call'.op = "write_track"
        /\ ~imdf.write_protected
        /\ BeyondLimits(imdf, call'.args[1], call'.args[2]))
          => /\ call'.ret = IMDF_ERR_GEOMETRY
             /\ imdf' = imdf
             /\ file' = file]_vars

\* C18 as claimed: every track of an image opened from a valid file has
\* head 0 or 1, whatever imdf_write_sector and imdf_write_track calls were
\* made on it.
C18_HeadZeroOrOne ==
    (pc = "image" /\ imdf.open)
    => \A i \in 1..Len(imdf.tracks) : imdf.tracks[i].head \in {0, 1}

\* C19 as claimed: in every track of an opened image, whatever
\* imdf_write_sector and imdf_write_track calls were made on it, cmap[i] is
\* cyl for every sector when the CMAP bit of hflag is clear, and hmap[i] is
\* head for every sector when the HMAP bit is clear.
C19_ImpliedMaps ==
    (pc = "image" /\ imdf.open)
    => \A i \in 1..Len(imdf.tracks) :
          LET t == imdf.tracks[i]
          IN  /\ t.hflag \div 128 = 0
                 => \A s \in 1..t.num_sectors : t.cmap[s] = t.cyl
              /\ (t.hflag \div 64) % 2 = 0
                 => \A s \in 1..t.num_sectors : t.hmap[s] = t.head


\* C20 as claimed: when the file rewrite of imdf_write_track fails, for a
\* new track as for an existing one, the tracks of the handle are after the
\* call what they were before it.
C20_FailedRewriteKeepsImage ==
    [][(/\ pc = "image" /\ call'.op = "write_track"
        /\ call'.ret # IMDF_ERR_OK /\ call'.target # << >>)
          => imdf'.tracks = imdf.tracks]_vars


(***************************************************************************)
(* Properties of the reads from a stream                                   *)
(***************************************************************************)
\* the number of bytes that follow a record type byte
DataLength(type, size) ==
    IF type = 0 THEN 0 ELSE IF type \in {2, 4, 6, 8} THEN 1 ELSE size

\* k sector data records of valid types lie whole in s from position p on
RECURSIVE RecordsFit(_, _, _, _)
RecordsFit(s, p, k, size) ==
    \/ k = 0
    \/ /\ p < Len(s)
       /\ s[p + 1] \in 0..8
       /\ p + 1 + DataLength(s[p + 1], size) <= Len(s)
       /\ RecordsFit(s, p + 1 + DataLength(s[p + 1], size), k - 1, size)

\* the position of the first sector data record of the record at p
RecordsStart(s, p) ==
    p + 5 + s[p + 4] * (1 + (s[p + 3] \div 128) + ((s[p + 3] \div 64) % 2))

\* a well-formed track record lies whole in s from position p on
ValidRecordAt(s, p) ==
    /\ p + 5 <= Len(s)
    /\ s[p + 1] < 6 /\ s[p + 3] % 16 <= 1 /\ s[p + 5] < 7
    /\ RecordsStart(s, p) <= Len(s)
    /\ RecordsFit(s, RecordsStart(s, p), s[p + 4], SECTOR_SIZE_LOOKUP[s[p + 5] + 1])

\* C21: imd_load_track returns 0 exactly when the stream ends before the
\* first header byte; when the stream ends or has invalid content after
\* that byte it returns a negative error, the track has no data buffer and
\* the stream is where it was before the call.
C21_LoadTrackErrors ==
    (pc \in {"stream", "end"} /\ wres.op = "load_track")
    => /\ wres.ret = 0 <=> wres.start >= Len(fimd)
       /\ (wres.start < Len(fimd) /\ ~ValidRecordAt(fimd, wres.start))
          => /\ wres.ret < 0
             /\ track.data = << >>
             /\ fpos = wres.start

\* imd_load_track failed on a record after the first, whose header and maps
\* are whole and valid
C21_Witness ==
    /\ pc = "end" /\ wres.op = "load_track" /\ wres.ret < 0
    /\ wres.start > 0
    /\ wres.start + 5 <= Len(fimd)
    /\ fimd[wres.start + 1] < 6 /\ fimd[wres.start + 3] % 16 <= 1
    /\ fimd[wres.start + 5] < 7
    /\ RecordsStart(fimd, wres.start) < Len(fimd)
    /\ fpos = wres.start


\* what imd_load_track does with the record the last header read started at
LoadOfLastRead == imd_load_track(fimd, wres.start, LIBIMD_FILL_BYTE_DEFAULT)

HeaderReadDone ==
    /\ pc \in {"stream", "end"}
    /\ wres.op \in {"read_track_header", "read_track_header_and_flags"}

AgreesWithLoad(l) ==
    /\ wres.ret = 1 <=> l.ret = 1
    /\ wres.ret = 1 => fpos = l.pos

\* C22: imd_read_track_header and imd_read_track_header_and_flags succeed on
\* the record at the current position exactly when imd_load_track does, and
\* then leave the stream at the same position, however the skip is done.
C22_SameRecords == HeaderReadDone => AgreesWithLoad(LoadOfLastRead)


(***************************************************************************)
(* Properties of imdchk_check_file                                         *)
(***************************************************************************)
CheckReturned == pc = "check_done" /\ chk.ret = 0

HasFailed(bit) == MaskAnd(chk.results.check_failures_mask, bit) # 0

IsFatal(bit) == MaskAnd(chk.options.error_mask, bit) # 0

NoConstraints ==
    /\ chk.options.max_allowed_cyl = -1
    /\ chk.options.required_head = -1
    /\ chk.options.max_allowed_sectors = -1

\* the i-th track read does not advance the head within the cylinder of the
\* track read before it
HeadNotAdvanced(i) ==
    /\ i > 1
    /\ chk.scanned[i].cyl = chk.scanned[i - 1].cyl
    /\ chk.scanned[i].head <= chk.scanned[i - 1].head

\* C23: without constraints and without fatal sequence bits,
\* imdchk_check_file sets SeqHeadOrder if and only if some track after the
\* first has the cylinder of the track before it and a head that is not
\* greater, head 0 after head 1 on the same cylinder included.
C23_SeqHeadOrder ==
    (/\ CheckReturned /\ NoConstraints
     /\ ~IsFatal(CHECK_BIT_SEQ_CYL_DEC + CHECK_BIT_SEQ_HEAD_ORDER))
    => (HasFailed(CHECK_BIT_SEQ_HEAD_ORDER)
        <=> \E i \in 1..Len(chk.scanned) : HeadNotAdvanced(i))


\* the stream s holds, from position p, k more sector records of size
\* bytes and then whole track records, and one of the sector records has a
\* type byte above 0x08
RECURSIVE TypeAbove8From(_, _, _, _)
TypeAbove8From(s, p, k, size) ==
    IF k = 0
    THEN /\ p + 5 <= Len(s)
         /\ s[p + 5] < SECTOR_SIZE_LOOKUP_COUNT
         /\ RecordsStart(s, p) <= Len(s)
         /\ TypeAbove8From(s, RecordsStart(s, p), s[p + 4], SECTOR_SIZE_LOOKUP[s[p + 5] + 1])
    ELSE /\ p < Len(s)
         /\ \/ s[p + 1] > IMD_SDR_COMPRESSED_DEL_ERR
            \/ TypeAbove8From(s, p + 1 + DataLength(s[p + 1], size), k - 1, size)

\* imdchk_check_file returned after it read the file header and the comment
\* and could ask for the position of every track
ScannedTracks ==
    /\ CheckReturned
    /\ ~HasFailed(CHECK_BIT_HEADER + CHECK_BIT_COMMENT_TERM + CHECK_BIT_FTELL)

\* C24: when a track of the file has a sector record type above 0x08,
\* imdchk_check_file sets InvSflagValue in the failure mask.
C24_InvalidTypeReported ==
    (ScannedTracks /\ TypeAbove8From(fimd, 0, 0, 0))
    => HasFailed(CHECK_BIT_INV_SFLAG_VALUE)


\* the i-th track read trips a failure of its own that the error mask
\* makes fatal: a constraint, its order after the track before it, or a
\* duplicate sector ID
OwnFatalFailure(i) ==
    LET t == chk.scanned[i]
        o == chk.options
    IN  \/ /\ IsFatal(CHECK_BIT_CON_CYL + CHECK_BIT_CON_HEAD + CHECK_BIT_CON_SECTORS)
           /\ \/ o.max_allowed_cyl # -1 /\ t.cyl > o.max_allowed_cyl
              \/ o.required_head # -1 /\ t.head # o.required_head
              \/ o.max_allowed_sectors # -1 /\ t.num_sectors > o.max_allowed_sectors
        \/ /\ IsFatal(CHECK_BIT_SEQ_CYL_DEC + CHECK_BIT_SEQ_HEAD_ORDER)
           /\ i > 1
           /\ \/ t.cyl < chk.scanned[i - 1].cyl
              \/ HeadNotAdvanced(i)
        \/ /\ IsFatal(CHECK_BIT_DUPE_SID)
           /\ \E j, k \in 1..t.num_sectors : j # k /\ t.smap[j] = t.smap[k]

SoundTracks == {i \in 1..Len(chk.scanned) : ~OwnFatalFailure(i)}

RECURSIVE SectorsOf(_)
SectorsOf(S) ==
    IF S = {} THEN 0
    ELSE LET i == CHOOSE x \in S : TRUE
         IN  chk.scanned[i].num_sectors + SectorsOf(S \ {i})

HasSectorWith(i, P(_)) ==
    \E k \in 1..chk.scanned[i].num_sectors :
        IMD_SDR_HAS_DATA(chk.scanned[i].sflag[k]) /\ P(chk.scanned[i].sflag[k])

\* C25: a fatal failure of one track skips the checks of that track only:
\* the sectors of every track read that has no fatal failure of its own are
\* counted, and its deleted-data and data-error flags are reported.
C25_OnlyFailedTrackSkipped ==
    ScannedTracks
    => /\ chk.results.total_sector_count = SectorsOf(SoundTracks)
       /\ \A i \in SoundTracks :
             /\ HasSectorWith(i, IMD_SDR_HAS_DAM) => HasFailed(CHECK_BIT_SFLAG_DEL_DAM)
             /\ HasSectorWith(i, IMD_SDR_HAS_ERR) => HasFailed(CHECK_BIT_SFLAG_DATA_ERR)


\* C26: imdchk_check_file terminates on every file and under every error
\* mask: the scan always comes to its return.
C26_Terminates == <>(pc = "check_done")


(***************************************************************************)
(* Properties of the file behind the image                                 *)
(***************************************************************************)
\* the fields of a track that the file records
FileFields(t) ==
    [cyl |-> t.cyl, head |-> t.head, mode |-> t.mode, hflag |-> t.hflag,
     num_sectors |-> t.num_sectors, sector_size_code |-> t.sector_size_code,
     smap |-> t.smap, sflag |-> t.sflag, data |-> t.data]

\* the image o, opened from the file, has the tracks of the handle h
MirrorsImage(o, h) ==
    /\ o.ret = IMDF_ERR_OK
    /\ Len(o.imdf.tracks) = Len(h.tracks)
    /\ \A i \in 1..Len(h.tracks) :
          FileFields(o.imdf.tracks[i]) = FileFields(h.tracks[i])

SuccessfulWrite ==
    /\ pc = "image"
    /\ call.op \in {"write_sector", "write_track"}
    /\ call.ret = IMDF_ERR_OK

\* C27: after a successful imdf_write_sector or imdf_write_track the file
\* is a faithful copy of the image in memory: opening it again succeeds and
\* gives the same tracks, with the same header fields, smap, sflags and
\* sector data, and nothing after the last track.
C27_FileMirrorsImage == SuccessfulWrite => MirrorsImage(imdf_open(file, FALSE), imdf)


\* the position in s after the k sector records of size bytes that start
\* at p
RECURSIVE SectorRecordsEnd(_, _, _, _)
SectorRecordsEnd(s, p, k, size) ==
    IF k = 0 THEN p
    ELSE SectorRecordsEnd(s, p + 1 + DataLength(s[p + 1], size), k - 1, size)

\* the position in s after the track record that starts at p
RecordEnd(s, p) ==
    SectorRecordsEnd(s, RecordsStart(s, p), s[p + 4], SECTOR_SIZE_LOOKUP[s[p + 5] + 1])

\* the bytes of the i-th of the track records of s that start at p
RECURSIVE TrackRecord(_, _, _)
TrackRecord(s, p, i) ==
    IF i = 1 THEN SubSeq(s, p + 1, RecordEnd(s, p))
    ELSE TrackRecord(s, RecordEnd(s, p), i - 1)

\* the bytes of the record of the i-th track in the file f
FileRecord(f, i) == TrackRecord(f.body, imd_read_comment_block(f.body, 0).pos, i)

\* C28: a successful imdf_write_sector or imdf_write_track leaves the
\* record of every track other than the one it was called for in the file
\* with the bytes it had before the call.
C28_OtherTracksKept ==
    [][(pc = "image" /\ call'.op \in {"write_sector", "write_track"}
        /\ call'.ret = IMDF_ERR_OK)
       => LET ti == call'.target[1] + 1
              inserted == Len(imdf'.tracks) > Len(imdf.tracks)
          IN  \A j \in 1..Len(imdf.tracks) :
                 LET j2 == IF inserted /\ j >= ti THEN j + 1 ELSE j
                 IN  j2 # ti => FileRecord(file', j2) = FileRecord(file, j)]_vars


(***************************************************************************)
(* Properties of imd_apply_interleave and the detection of its factor      *)
(***************************************************************************)
\* the positions of track t that hold the sector tuple x
PositionsOf(t, x) == {p \in 0..(t.num_sectors - 1) : SectorTuple(t, p) = x}

\* C29: imd_apply_interleave permutes the sectors of a loaded track of two
\* or more sectors, duplicate sector IDs included: for every factor from 1
\* the sector tuples (smap, cmap, hmap, sflag, data) after the call are those
\* before it, each as often as before.
C29_InterleavePermutes ==
    (Interleaved /\ track.num_sectors >= 2 /\ wres.factor >= 1)
    => /\ wres.track.num_sectors = track.num_sectors
       /\ \A q \in 0..(track.num_sectors - 1) :
             Cardinality(PositionsOf(wres.track, SectorTuple(track, q)))
                 = Cardinality(PositionsOf(track, SectorTuple(track, q)))


\* C30: detection inverts application: on a loaded track of n >= 2 sectors
\* with distinct sector IDs, imd_calculate_best_interleave on the track that
\* imd_apply_interleave produced for a factor k, 1 <= k < n, returns k.
C30_DetectionInvertsApplication ==
    (/\ Interleaved
     /\ track.num_sectors >= 2
     /\ DistinctIds(track.smap)
     /\ wres.factor \in 1..(track.num_sectors - 1))
    => imd_calculate_best_interleave(wres.track) = wres.factor

\* factor 2 on four sectors: the third sector finds slot 0 taken and moves on
C30_Witness ==
    /\ Interleaved
    /\ track.smap = <<2, 1, 4, 3>>
    /\ wres.factor = 2
    /\ wres.track.smap = <<1, 3, 2, 4>>
    /\ imd_calculate_best_interleave(wres.track) = 2

====
